---- MODULE Spec2Model ----
(***************************************************************************)
(* State-machine model of the WebSub hub engine of superduperfeeder-hub:   *)
(* the inbound Subscription store (rows + (topic, callback) index), the    *)
(* subscribe / unsubscribe request handler, the setTimeout-dispatched      *)
(* verification handler with its verification GET in flight, the feed      *)
(* fallback (checkAndAddFeedForPolling), content notification and the      *)
(* distribution queue.                                                     *)
(*                                                                         *)
(* Handlers are asynchronous: the model lets other handlers run at the     *)
(* awaits that separate a handler's store read from its store write, and   *)
(* while a verification GET is in flight.                                  *)
(***************************************************************************)
EXTENDS Integers, Sequences, FiniteSets, TLC

(* ------------------------------ bounds --------------------------------- *)
MaxReq ==
  2
MaxTicks ==
  1
MaxQueue ==
  2
MaxActive ==
  2
(* the polling engine: scheduler ticks, upstream changes, queue length,   *)
(* polls in progress, FeedItem rows, polling intervals that pass          *)
MaxPolls ==
  2
MaxPublish ==
  2
MaxPollQueue ==
  2
MaxPolling ==
  2
MaxItems ==
  3
MaxWaits ==
  1
(* the webhook side: ExternalSubscription rows, UserCallback rows,        *)
(* handlers in progress, consecutive errors counted on a row, long waits  *)
MaxExt ==
  2
MaxUcb ==
  2
MaxCalls ==
  1
MaxErrors ==
  1
MaxSleeps ==
  1

(* ------------------------- program constants --------------------------- *)
defaultLeaseSeconds ==
  86400
maxLeaseSeconds ==
  2592000
VerificationWindow ==
  900
NoToken ==
  0
NoDate ==
  -1
NoId ==
  0
TickSeconds ==
  901
defaultPollingIntervalMinutes ==
  60
MaxJitterMinutes ==
  4
NoEtag ==
  0
NoGuid ==
  ""
NoItemId ==
  0
renewalWindowMinutes ==
  60
UserTokenHours ==
  24
NoUrl ==
  ""

(* ------------------------------ inputs --------------------------------- *)
Topics ==
  {"t1", "t2"}
Callbacks ==
  {"c1", "c2"}
(* the (topic, callback) pairs requests are made for: two subscribers of   *)
(* one topic in the lifecycle, and a second topic for the fan-out          *)
Pairs ==
  {<<"t1", "c1">>, <<"t1", "c2">>}
FanoutPairs ==
  Pairs \cup {<<"t2", "c1">>}
BadUrl ==
  "not a url"
Modes ==
  {"subscribe", "unsubscribe"}
Contents ==
  {"b1", "b2"}
ContentTypes ==
  {"application/rss+xml"}
Statuses ==
  {0, 200, 204, 500}

(* request.leaseSeconds as it reaches the request handler: absent          *)
(* (undefined) or a number                                                 *)
NoLease ==
  [kind |-> "absent", v |-> 0]
LeaseInputs ==
  {NoLease}
    \cup {[kind |-> "int", v |-> n] : n \in {-5, 0, maxLeaseSeconds, maxLeaseSeconds + 1}}

(* new URL(x) succeeds *)
IsUrl(u) ==
  u \in Topics \cup Callbacks

(* response.ok : status in 200..299 (0 stands for a fetch that threw) *)
IsOk(st) ==
  st >= 200 /\ st <= 299

(* The Web as the hub sees it when it fetches a topic: t1 is a feed        *)
(* document, t2 an HTML page whose <link rel="alternate"> names t1.        *)
(* p1 and p2 are HTML pages too, whose <link rel="alternate"> names an    *)
(* HTML page: p1 names p2, and p2 names t2.                                *)
Pages ==
  Topics \cup {"p1", "p2"}
Web ==
  [u \in Pages |->
     IF u = "t1" THEN [kind |-> "feed", link |-> ""]
     ELSE IF u = "t2" THEN [kind |-> "html", link |-> "t1"]
     ELSE IF u = "p2" THEN [kind |-> "html", link |-> "t2"]
     ELSE [kind |-> "html", link |-> "p2"]]

(* body.trim(): strip leading and trailing white space *)
RECURSIVE TrimLeft(_)
TrimLeft(s) ==
  IF s # <<>> /\ Head(s) = " " THEN TrimLeft(Tail(s)) ELSE s
RECURSIVE TrimRight(_)
TrimRight(s) ==
  IF s # <<>> /\ s[Len(s)] = " " THEN TrimRight(SubSeq(s, 1, Len(s) - 1)) ELSE s
Trim(s) ==
  TrimRight(TrimLeft(s))

(* the text of challenge number n, and the bodies a subscriber may return *)
ChallengeText(n) ==
  <<"ch", ToString(n)>>
Bodies(n) ==
  { ChallengeText(n),
    <<" ">> \o ChallengeText(n) \o <<" ">>,
    <<"ch", " ", ToString(n)>>,
    <<>> }

(* ---------------------- the polled feed, upstream ---------------------- *)
FeedUrls ==
  {"t1"}
Guids ==
  {"g1", "g2"}

(* a feed entry: its id, its updated time (0: none) and its published time *)
Entry(guid, updated) ==
  [guid |-> guid, updated |-> updated, published |-> 1]

(* the documents the feed url serves over time.  The ETag of a document   *)
(* is its position in this list.                                          *)
Docs ==
  << [entries |-> <<>>, hub |-> FALSE],
     [entries |-> <<Entry("g1", 1)>>, hub |-> FALSE],
     [entries |-> <<Entry("g2", 2), Entry("g1", 1)>>, hub |-> FALSE],
     [entries |-> <<Entry("g1", 1), Entry("g2", 2)>>, hub |-> FALSE],
     [entries |-> <<Entry("g1", 2)>>, hub |-> FALSE],
     [entries |-> <<Entry("g1", 0), Entry("g2", 2)>>, hub |-> FALSE],
     [entries |-> <<Entry("g1", 3), Entry("g2", 2)>>, hub |-> FALSE],
     [entries |-> <<Entry("g1", 1)>>, hub |-> TRUE],
     [entries |-> <<Entry(NoGuid, 3), Entry("g1", 1)>>, hub |-> FALSE] >>

(* what a poll's fetch can come back with: status 0 is a fetch that threw, *)
(* parses says whether parseFeed accepts the body of a 2xx answer          *)
PollStatuses ==
  {0, 200, 304, 500}

(* Math.floor(Math.random() * 5) minutes: the extremes *)
Jitters ==
  {0, MaxJitterMinutes}

(* the Content-Type header of the answer: absent, or a type other than    *)
(* the one pollFeed falls back on                                         *)
NoContentType ==
  ""
ResponseContentTypes ==
  {NoContentType, "application/atom+xml"}

(* -------------------------- the webhook side --------------------------- *)
(* the urls users register to have content forwarded to, the external     *)
(* hubs feeds advertise, and config.hubUrl                                *)
UserUrls ==
  {"u1", "u2"}
Hubs ==
  {"h1"}
OwnHub ==
  "hub"

VARIABLES
  subs,       \* ("subscriptions", id) -> Subscription, NoRow when absent
  idx,        \* ("subscriptions_by_topic_callback", topic, callback) -> id
  feeds,      \* urls that have a Feed row (feeds_by_url)
  reqs,       \* processSubscriptionRequest calls between their read and write
  timers,     \* verifications handed to setTimeout, not yet started
  inflight,   \* verifySubscription calls whose verification GET is in flight
  deleting,   \* SubscriptionStore.delete calls between their two kv.delete
  queue,      \* the Deno KV queue of contentDistribution messages
  now,        \* the wall clock, in seconds
  nreq,       \* number of requests that got past validation (ids, tokens)
  feedRows,   \* ("feeds", id) -> Feed, by the url the id stands for
  items,      \* ("feed_items", id) -> FeedItem, NoItem when absent
  itemIdx,    \* ("feed_items_by_feed_guid", feedId, guid) -> id
  pollQueue,  \* the Deno KV queue of Feed messages
  polling,    \* pollFeed calls between their item lookups and their writes
  upstream,   \* the document the feed url serves, and how often it changed
  npoll,      \* scheduler ticks and waits so far
  extSubs,        \* ("external_subscriptions", id) -> ExternalSubscription
  extByTopic,     \* ("external_subscriptions_by_topic", topic) -> id
  extByCallback,  \* ("external_subscriptions_by_callback", path) -> id
  userCallbacks,  \* ("user_callbacks", id) -> UserCallback
  ucbIdx,         \* ("user_callbacks_by_topic_url", topic, url) -> id
  calls,          \* webhook and notification handlers between their awaits
  order,          \* bookkeeping: notifications accepted, deliveries made
  feedStore,      \* FeedStore by id: ("feeds", id) rows and ("feeds_by_url", url) -> id
  lastEvent   \* what the last handler step did and returned

vars ==
  <<subs, idx, feeds, reqs, timers, inflight, deleting, queue, now, nreq,
    feedRows, items, itemIdx, pollQueue, polling, upstream, npoll,
    extSubs, extByTopic, extByCallback, userCallbacks, ucbIdx, calls, order,
    feedStore, lastEvent>>

(* the state of the polling engine other than the Feed rows *)
pollVars ==
  <<items, itemIdx, pollQueue, polling, upstream, npoll>>

(* the state of the webhook side, and the bookkeeping of deliveries *)
webVars ==
  <<extSubs, extByTopic, extByCallback, userCallbacks, ucbIdx, calls, order,
    feedStore>>

(* the stores of the webhook side *)
extVars ==
  <<extSubs, extByTopic, extByCallback, userCallbacks, ucbIdx>>

(* the state of the hub engine *)
hubVars ==
  <<subs, idx, feeds, reqs, timers, inflight, deleting, nreq>>

NoRow ==
  [id |-> NoId]

Ids ==
  1..(MaxReq + 1)

Exists(id) ==
  subs[id] # NoRow

(* ------------------------- SubscriptionStore --------------------------- *)
getById(id) ==
  subs[id]

(* a stored row with the verified flag set *)
IsVerified(id) ==
  Exists(id) /\ subs[id].verified

getByTopicAndCallback(topic, callback) ==
  IF idx[<<topic, callback>>] = NoId
  THEN NoRow
  ELSE getById(idx[<<topic, callback>>])

(* kv.list walks the index keys of a topic in key order *)
CallbackOrder ==
  <<"c1", "c2">>

RECURSIVE RowsOf(_, _)
RowsOf(topic, cbs) ==
  IF cbs = <<>> THEN <<>>
  ELSE LET id == idx[<<topic, Head(cbs)>>]
       IN  (IF id # NoId /\ Exists(id) THEN <<getById(id)>> ELSE <<>>)
             \o RowsOf(topic, Tail(cbs))

(* getByTopic: list the index entries under the topic, load each row that
   still exists *)
getByTopic(topic) ==
  RowsOf(topic, CallbackOrder)

(* update: kv.set(["subscriptions", id], subscription) *)
StoreUpdate(s, row) ==
  [s EXCEPT ![row.id] = row]

(* delete: a missing row returns early; else kv.delete of the row, then,
   as a second store step, kv.delete of the index entry of the topic and
   callback of the row that was read *)
StoreDeleteSubs(id) ==
  IF Exists(id) THEN [subs EXCEPT ![id] = NoRow] ELSE subs

StoreDeleteIdx_KeepsEntry(subscription) ==
  idx

StoreDeleteIdx(subscription) ==
  [idx EXCEPT ![<<subscription.topic, subscription.callback>>] = NoId]

(* create: a fresh id, the row, then the index entry *)
StoreCreateSubs(row) ==
  [subs EXCEPT ![row.id] = row]
StoreCreateIdx(row) ==
  [idx EXCEPT ![<<row.topic, row.callback>>] = row.id]

(* ---------------- HubService.checkAndAddFeedForPolling ----------------- *)
(* up: the urls whose fetch answers 2xx in this call.  Returns whether a   *)
(* feed is (now) stored for the topic or for the feed its page links to,   *)
(* and the Feed rows afterwards.                                           *)
RECURSIVE checkAndAddFeedForPolling(_, _, _)
checkAndAddFeedForPolling(topic, up, fs) ==
  IF topic \in fs THEN [success |-> TRUE, feeds |-> fs]
  ELSE IF topic \notin up THEN [success |-> FALSE, feeds |-> fs]
  ELSE IF Web[topic].kind = "feed"
       THEN [success |-> TRUE, feeds |-> fs \cup {topic}]
  ELSE IF Web[topic].kind = "html" /\ Web[topic].link # ""
       THEN checkAndAddFeedForPolling(Web[topic].link, up, fs)
  ELSE [success |-> FALSE, feeds |-> fs]

(* ------------------------------ FeedStore ------------------------------ *)
NoFeed ==
  [url |-> ""]

NoItem ==
  [id |-> NoItemId]

ItemIds ==
  1..MaxItems

(* the store by id.  create: { id, errorCount: 0, ...data }, the row and  *)
(* then the index entry by url                                            *)
MaxFeeds ==
  2
FeedIds ==
  1..MaxFeeds

NoFeedStore ==
  [rows |-> [i \in FeedIds |-> NoFeed], byUrl |-> [u \in Topics |-> NoId]]

(* crypto.randomUUID(): an id no stored feed has *)
FreshFeedId(store) ==
  CHOOSE i \in FeedIds :
    store.rows[i] = NoFeed /\ \A j \in FeedIds : store.rows[j] = NoFeed => i <= j

CreatedFeed(store, data) ==
  [id |-> FreshFeedId(store), errorCount |-> 0] @@ data

FeedCreate_NoIndex(store, data) ==
  [rows |-> [store.rows EXCEPT ![FreshFeedId(store)] = CreatedFeed(store, data)],
   byUrl |-> store.byUrl]

FeedCreate(store, data) ==
  [rows |-> [store.rows EXCEPT ![FreshFeedId(store)] = CreatedFeed(store, data)],
   byUrl |-> [store.byUrl EXCEPT ![data.url] = FreshFeedId(store)]]

(* getById: the row, or null *)
FeedGetById(store, id) ==
  store.rows[id]

(* getByUrl: the id the index holds, then getById *)
FeedGetByUrl(store, url) ==
  IF store.byUrl[url] = NoId THEN NoFeed
  ELSE FeedGetById(store, store.byUrl[url])

(* update: kv.set(["feeds", feed.id], feed) *)
FeedStoreUpdate(store, feed) ==
  [store EXCEPT !.rows[feed.id] = feed]

(* delete: nothing when the row is missing, else the row and then the     *)
(* index entry of the url the stored row has                              *)
FeedDelete(store, id) ==
  IF FeedGetById(store, id) = NoFeed THEN store
  ELSE [rows |-> [store.rows EXCEPT ![id] = NoFeed],
        byUrl |-> [store.byUrl EXCEPT ![FeedGetById(store, id).url] = NoId]]

(* the date entries are sorted by: a.updated || a.published *)
SortKey(entry) ==
  IF entry.updated # 0 THEN entry.updated ELSE entry.published

(* the id of the first entry after the (stable) sort by date, newest first *)
mostRecentEntryId(entries) ==
  IF entries = <<>> THEN NoGuid
  ELSE LET first == CHOOSE i \in 1..Len(entries) :
                      /\ \A j \in 1..Len(entries) : SortKey(entries[j]) <= SortKey(entries[i])
                      /\ \A j \in 1..(i - 1) : SortKey(entries[j]) < SortKey(entries[i])
       IN  entries[first].guid

(* the Feed checkAndAddFeedForPolling creates from the document it fetched *)
NewFeed(url) ==
  [url |-> url, active |-> TRUE, supportsWebSub |-> FALSE,
   lastFetched |-> NoDate, etag |-> NoEtag,
   pollingInterval |-> defaultPollingIntervalMinutes,
   errorCount |-> 0, lastError |-> FALSE,
   lastProcessedEntryId |-> mostRecentEntryId(Docs[upstream.doc].entries)]

(* db.feeds.create for the urls that were added to the store *)
CreatedFeedRows(fs) ==
  [u \in Topics |-> IF u \in fs /\ u \notin feeds THEN NewFeed(u) ELSE feedRows[u]]

(* FeedStore.update: kv.set(["feeds", feed.id], feed) *)
FeedUpdate(feed) ==
  [feedRows EXCEPT ![feed.url] = feed]

(* FeedStore.getItemByFeedAndGuid *)
getItemByFeedAndGuid(feedId, guid) ==
  IF itemIdx[<<feedId, guid>>] = NoItemId
  THEN NoItem
  ELSE items[itemIdx[<<feedId, guid>>]]

(* ---------------------- ExternalSubscriptionStore ---------------------- *)
NoExt ==
  [id |-> NoId]

ExtIds ==
  1..MaxExt

(* crypto.randomUUID(): an id no stored row has *)
FreshExtId ==
  CHOOSE i \in ExtIds :
    extSubs[i] = NoExt /\ \A j \in ExtIds : extSubs[j] = NoExt => i <= j

(* the row subscribeToExternalHub and subscribeToOwnHub create: the       *)
(* callback path and the secret are fresh uuids, written here as the id   *)
NewExt(id, topic, hub, usingFallback) ==
  [id |-> id, topic |-> topic, hub |-> hub, callbackPath |-> id, secret |-> id,
   leaseSeconds |-> defaultLeaseSeconds, expires |-> now + defaultLeaseSeconds,
   verified |-> FALSE, usingFallback |-> usingFallback, errorCount |-> 0,
   lastRenewed |-> NoDate, lastError |-> FALSE]

(* create: the row, the index by topic, the index by callback path *)
ExtCreate(store, row) ==
  [extSubs |-> [store.extSubs EXCEPT ![row.id] = row],
   extByTopic |-> [store.extByTopic EXCEPT ![row.topic] = row.id],
   extByCallback |-> [store.extByCallback EXCEPT ![row.callbackPath] = row.id]]

ExtStore ==
  [extSubs |-> extSubs, extByTopic |-> extByTopic, extByCallback |-> extByCallback]

(* update: kv.set(["external_subscriptions", id], subscription) *)
ExtUpdate(store, row) ==
  [store EXCEPT !.extSubs[row.id] = row]

ExtGetByTopic(topic) ==
  IF extByTopic[topic] = NoId THEN NoExt ELSE extSubs[extByTopic[topic]]

getByCallbackPath(path) ==
  IF path \notin ExtIds \/ extByCallback[path] = NoId
  THEN NoExt
  ELSE extSubs[extByCallback[path]]

ExtDelete_KeepsTopicIndex(store, id) ==
  IF store.extSubs[id] = NoExt THEN store
  ELSE [extSubs |-> [store.extSubs EXCEPT ![id] = NoExt],
        extByTopic |-> store.extByTopic,
        extByCallback |->
          [store.extByCallback EXCEPT ![store.extSubs[id].callbackPath] = NoId]]

(* delete: a missing row returns early; else the row and the index       *)
(* entries of its topic and of its callback path                         *)
ExtDelete(store, id) ==
  IF store.extSubs[id] = NoExt THEN store
  ELSE [extSubs |-> [store.extSubs EXCEPT ![id] = NoExt],
        extByTopic |-> [store.extByTopic EXCEPT ![store.extSubs[id].topic] = NoId],
        extByCallback |->
          [store.extByCallback EXCEPT ![store.extSubs[id].callbackPath] = NoId]]

(* getAll lists the rows in key order *)
RECURSIVE ExtRowsFrom(_)
ExtRowsFrom(i) ==
  IF i > MaxExt THEN <<>>
  ELSE (IF extSubs[i] # NoExt THEN <<extSubs[i]>> ELSE <<>>) \o ExtRowsFrom(i + 1)

ExtGetAll ==
  ExtRowsFrom(1)

(* subscription.expires < now *)
IsExpired(subscription) ==
  subscription.expires < now

getExpired ==
  SelectSeq(ExtGetAll, IsExpired)

NeedsRenewal_IgnoresVerified(subscription) ==
  subscription.expires < now + renewalWindowMinutes * 60

(* subscription.verified && subscription.expires < renewalThreshold *)
NeedsRenewal(subscription) ==
  subscription.verified /\ subscription.expires < now + renewalWindowMinutes * 60

getNeedingRenewal ==
  SelectSeq(ExtGetAll, NeedsRenewal)

(* -------------------------- UserCallbackStore -------------------------- *)
NoCallback ==
  [id |-> NoId]

UcbIds ==
  1..MaxUcb

FreshUcbId ==
  CHOOSE i \in UcbIds :
    userCallbacks[i] = NoCallback
      /\ \A j \in UcbIds : userCallbacks[j] = NoCallback => i <= j

(* the row subscribeToFeed creates: the token is a fresh uuid, written    *)
(* here as the id; it expires 24 hours later                              *)
NewCallback(id, topic, callbackUrl) ==
  [id |-> id, topic |-> topic, callbackUrl |-> callbackUrl, verified |-> FALSE,
   verificationToken |-> id,
   verificationExpires |-> now + UserTokenHours * 3600, errorCount |-> 0]

getByTopicAndUrl(topic, callbackUrl) ==
  IF ucbIdx[<<topic, callbackUrl>>] = NoId
  THEN NoCallback
  ELSE userCallbacks[ucbIdx[<<topic, callbackUrl>>]]

(* kv.list walks the index keys of a topic in key order *)
UserUrlOrder ==
  <<"u1", "u2">>

RECURSIVE CallbacksOf(_, _)
CallbacksOf(topic, urls) ==
  IF urls = <<>> THEN <<>>
  ELSE LET id == ucbIdx[<<topic, Head(urls)>>]
       IN  (IF id # NoId /\ userCallbacks[id] # NoCallback
            THEN <<userCallbacks[id]>> ELSE <<>>)
             \o CallbacksOf(topic, Tail(urls))

(* UserCallbackStore.getByTopic *)
UcbGetByTopic(topic) ==
  CallbacksOf(topic, UserUrlOrder)

(* bookkeeping of what was accepted and what was POSTed, in order *)
NoOrder ==
  [accepted |-> <<>>, posted |-> <<>>]

(* ------------------------------- Init ---------------------------------- *)
Init ==
  /\ subs = [i \in Ids |-> NoRow]
  /\ idx = [p \in Topics \X Callbacks |-> NoId]
  /\ feeds = {}
  /\ reqs = {}
  /\ timers = {}
  /\ inflight = {}
  /\ deleting = {}
  /\ queue = <<>>
  /\ now = 0
  /\ nreq = 0
  /\ feedRows = [u \in Topics |-> NoFeed]
  /\ items = [i \in ItemIds |-> NoItem]
  /\ itemIdx = [k \in FeedUrls \X Guids |-> NoItemId]
  /\ pollQueue = <<>>
  /\ polling = {}
  /\ upstream = [doc |-> 1, n |-> 0]
  /\ npoll = 0
  /\ extSubs = [i \in ExtIds |-> NoExt]
  /\ extByTopic = [t \in Pages |-> NoId]
  /\ extByCallback = [i \in ExtIds |-> NoId]
  /\ userCallbacks = [i \in UcbIds |-> NoCallback]
  /\ ucbIdx = [k \in Pages \X UserUrls |-> NoId]
  /\ calls = {}
  /\ order = NoOrder
  /\ feedStore = NoFeedStore
  /\ lastEvent = [op |-> "init"]

(* ---- bookkeeping: was a handler alone on its (topic, callback)? -------- *)
(* solo is not program state: it records that from the start of a request  *)
(* to the end of its verification no other request for the same topic and  *)
(* callback was being processed.                                           *)
Busy(topic, callback) ==
  \/ \E r \in reqs : r.topic = topic /\ r.callback = callback
  \/ \E v \in timers : v.topic = topic /\ v.callback = callback
  \/ \E f \in inflight : f.ver.topic = topic /\ f.ver.callback = callback
  \/ \E d \in deleting : d.topic = topic /\ d.callback = callback

Shared(x, topic, callback) ==
  IF x.topic = topic /\ x.callback = callback THEN [x EXCEPT !.solo = FALSE] ELSE x

(* -------------- HubService.processSubscriptionRequest ------------------ *)
(* request.leaseSeconds || config.defaultLeaseSeconds *)
LeaseOf(lease) ==
  IF lease.kind = "int" /\ lease.v # 0 THEN lease.v ELSE defaultLeaseSeconds

(* leaseSeconds > config.maxLeaseSeconds *)
LeaseTooLong(leaseSeconds) ==
  leaseSeconds > maxLeaseSeconds

Rejected(mode, topic, callback) ==
  [op |-> "request", success |-> FALSE, mode |-> mode,
   topic |-> topic, callback |-> callback]

(* validation, then the read of the existing subscription *)
ReqStart(mode, topic, callback, lease) ==
  /\ nreq < MaxReq
  /\ Cardinality(reqs) + Cardinality(timers) + Cardinality(inflight)
       + Cardinality(deleting) < MaxActive
  /\ IF ~IsUrl(topic) \/ ~IsUrl(callback)
     THEN /\ lastEvent' = Rejected(mode, topic, callback)
          /\ UNCHANGED <<subs, idx, feeds, reqs, timers, inflight, deleting, queue, now, nreq>>
     ELSE IF mode = "unsubscribe" /\ getByTopicAndCallback(topic, callback) = NoRow
     THEN /\ lastEvent' = Rejected(mode, topic, callback)
          /\ UNCHANGED <<subs, idx, feeds, reqs, timers, inflight, deleting, queue, now, nreq>>
     ELSE /\ nreq' = nreq + 1
          /\ reqs' = { Shared(r, topic, callback) : r \in reqs }
                       \cup {[n |-> nreq + 1, mode |-> mode, topic |-> topic,
                              callback |-> callback, leaseSeconds |-> LeaseOf(lease),
                              existing |-> getByTopicAndCallback(topic, callback),
                              solo |-> ~Busy(topic, callback)]}
          /\ timers' = { Shared(v, topic, callback) : v \in timers }
          /\ inflight' = { [f EXCEPT !.ver = Shared(f.ver, topic, callback)] : f \in inflight }
          /\ lastEvent' = [op |-> "read", n |-> nreq + 1]
          /\ UNCHANGED <<subs, idx, feeds, deleting, queue, now>>

(* the row an unsubscribe request writes: the row read, with a token *)
UnsubscribeRow(existing, token) ==
  [existing EXCEPT !.verificationToken = token,
                   !.verificationExpires = now + VerificationWindow]

(* the row a repeated subscribe writes over the existing one *)
ResubscribeRow(existing, leaseSeconds, token) ==
  [existing EXCEPT !.leaseSeconds = leaseSeconds,
                   !.expires = now + leaseSeconds,
                   !.verificationToken = token,
                   !.verificationExpires = now + VerificationWindow,
                   !.verified = FALSE]

(* the row a first subscribe creates *)
NewRow(id, topic, callback, leaseSeconds, token) ==
  [id |-> id, topic |-> topic, callback |-> callback,
   leaseSeconds |-> leaseSeconds,
   expires |-> now + leaseSeconds, verified |-> FALSE,
   verificationToken |-> token,
   verificationExpires |-> now + VerificationWindow]

Verification(r, id, leaseSeconds) ==
  [id |-> id, topic |-> r.topic, callback |-> r.callback, mode |-> r.mode,
   leaseSeconds |-> leaseSeconds, challenge |-> r.n,
   verificationToken |-> r.n, solo |-> r.solo]

Accepted(r, id) ==
  [op |-> "request", success |-> TRUE, mode |-> r.mode, topic |-> r.topic,
   callback |-> r.callback, id |-> id, token |-> r.n, solo |-> r.solo,
   was |-> IsVerified(id)]

(* queueVerification: setTimeout(() => verifySubscription(v), 0) *)
queueVerification(v) ==
  timers' = timers \cup {v}

(* the lease check, the row write and the dispatch of the verification *)
ReqWrite(r) ==
  /\ r \in reqs
  /\ reqs' = reqs \ {r}
  /\ UNCHANGED <<feeds, inflight, deleting, queue, now, nreq>>
  /\ IF r.mode = "unsubscribe"
     THEN /\ subs' = StoreUpdate(subs, UnsubscribeRow(r.existing, r.n))
          /\ idx' = idx
          /\ queueVerification(Verification(r, r.existing.id, 0))
          /\ lastEvent' = Accepted(r, r.existing.id)
     ELSE IF LeaseTooLong(r.leaseSeconds)
     THEN /\ lastEvent' = Rejected(r.mode, r.topic, r.callback)
          /\ UNCHANGED <<subs, idx, timers>>
     ELSE IF r.existing # NoRow
     THEN /\ subs' = StoreUpdate(subs, ResubscribeRow(r.existing, r.leaseSeconds, r.n))
          /\ idx' = idx
          /\ queueVerification(Verification(r, r.existing.id, r.leaseSeconds))
          /\ lastEvent' = Accepted(r, r.existing.id)
     ELSE /\ subs' = StoreCreateSubs(NewRow(r.n, r.topic, r.callback, r.leaseSeconds, r.n))
          /\ idx' = StoreCreateIdx(NewRow(r.n, r.topic, r.callback, r.leaseSeconds, r.n))
          /\ queueVerification(Verification(r, r.n, r.leaseSeconds))
          /\ lastEvent' = Accepted(r, r.n)

(* ------------------- HubService.verifySubscription --------------------- *)
(* the checks made before the verification GET is sent *)
TokenMismatch(subscription, verification) ==
  subscription.verificationToken # verification.verificationToken

VerificationExpired(subscription) ==
  /\ subscription.verificationExpires # NoDate
  /\ subscription.verificationExpires < now

(* the timer fires: load the row, check token and expiry, send the GET *)
VerifyStart(v) ==
  /\ v \in timers
  /\ timers' = timers \ {v}
  /\ UNCHANGED <<subs, idx, feeds, reqs, deleting, queue, now, nreq>>
  /\ IF getById(v.id) = NoRow
     THEN /\ inflight' = inflight
          /\ lastEvent' = [op |-> "verify", sent |-> FALSE, why |-> "missing",
                           token |-> v.verificationToken]
     ELSE IF TokenMismatch(getById(v.id), v)
     THEN /\ inflight' = inflight
          /\ lastEvent' = [op |-> "verify", sent |-> FALSE, why |-> "token",
                           token |-> v.verificationToken]
     ELSE IF VerificationExpired(getById(v.id))
     THEN /\ inflight' = inflight
          /\ lastEvent' = [op |-> "verify", sent |-> FALSE, why |-> "expired",
                           token |-> v.verificationToken]
     ELSE /\ inflight' = inflight \cup {[ver |-> v, sub |-> getById(v.id)]}
          /\ lastEvent' = [op |-> "verify", sent |-> TRUE, why |-> "",
                           token |-> v.verificationToken]

VerifiedRow_KeepsToken(subscription) ==
  [subscription EXCEPT !.verified = TRUE]

VerifiedRow_FlagNotSet(subscription) ==
  [subscription EXCEPT !.verificationToken = NoToken,
                       !.verificationExpires = NoDate]

(* the row written when a subscription is marked verified: the row read    *)
(* before the GET, with the flag set and the token cleared                 *)
VerifiedRow(subscription) ==
  [subscription EXCEPT !.verified = TRUE,
                       !.verificationToken = NoToken,
                       !.verificationExpires = NoDate]

(* body.trim() !== verification.challenge *)
ChallengeMismatch(body, verification) ==
  Trim(body) # ChallengeText(verification.challenge)

(* a failed subscribe verification marks the row verified when the topic   *)
(* is, or links to, a feed                                                 *)
FallbackVerifies(feedCheck) ==
  feedCheck.success

FailedSubscribe_WritesRowBack(f, feedCheck) ==
  IF FallbackVerifies(feedCheck)
  THEN StoreUpdate(subs, VerifiedRow(f.sub))
  ELSE StoreUpdate(subs, f.sub)

(* the rows after a subscribe verification that failed *)
FailedSubscribe(f, feedCheck) ==
  IF FallbackVerifies(feedCheck)
  THEN StoreUpdate(subs, VerifiedRow(f.sub))
  ELSE subs

Answered(f, st, body, up, stale) ==
  [op |-> "answer", id |-> f.ver.id,
   mode |-> f.ver.mode, topic |-> f.ver.topic, callback |-> f.ver.callback,
   status |-> st, matched |-> ~ChallengeMismatch(body, f.ver),
   solo |-> f.ver.solo, stale |-> stale,
   existed |-> Exists(f.ver.id), was |-> IsVerified(f.ver.id)]

(* db.subscriptions.delete(verification.id) is called: on an unsubscribe
   verification answered non-2xx, or answered 2xx with the challenge *)
CallsDelete(f, st, body) ==
  /\ st # 0
  /\ f.ver.mode = "unsubscribe"
  /\ (~IsOk(st) \/ st >= 400) \/ ~ChallengeMismatch(body, f.ver)

(* the delete that has removed the row and still has to remove the index
   entry of the row it read *)
PendingDelete(f, st) ==
  [id |-> f.ver.id, topic |-> getById(f.ver.id).topic,
   callback |-> getById(f.ver.id).callback, status |-> st]

(* the verification GET returns (status 0: the fetch threw).  A delete    *)
(* does its getById and its first kv.delete here and its second kv.delete *)
(* in DeleteIndex; the feed check, which touches no subscription, is      *)
(* taken with this step.                                                  *)
VerifyRespond(f, st, body, up) ==
  /\ f \in inflight
  /\ inflight' = inflight \ {f}
  /\ UNCHANGED <<reqs, timers, queue, now, nreq>>
  /\ lastEvent' = Answered(f, st, body, up,
                           getById(f.ver.id) = NoRow \/ TokenMismatch(getById(f.ver.id), f.ver))
  /\ idx' = idx
  /\ deleting' = IF CallsDelete(f, st, body) /\ Exists(f.ver.id)
                 THEN deleting \cup {PendingDelete(f, st)}
                 ELSE deleting
  /\ LET feedCheck == checkAndAddFeedForPolling(f.ver.topic, up, feeds)
     IN
     IF st = 0
     THEN UNCHANGED <<subs, feeds>>
     ELSE IF ~IsOk(st) \/ st >= 400
     THEN IF f.ver.mode = "unsubscribe"
          THEN /\ subs' = StoreDeleteSubs(f.ver.id)
               /\ feeds' = feeds
          ELSE /\ feeds' = feedCheck.feeds
               /\ subs' = FailedSubscribe(f, feedCheck)
     ELSE IF ChallengeMismatch(body, f.ver)
     THEN IF f.ver.mode = "subscribe"
          THEN /\ feeds' = feedCheck.feeds
               /\ subs' = FailedSubscribe(f, feedCheck)
          ELSE UNCHANGED <<subs, feeds>>
     ELSE /\ feeds' = feedCheck.feeds
          /\ IF f.ver.mode = "subscribe"
             THEN subs' = StoreUpdate(subs, VerifiedRow(f.sub))
             ELSE subs' = StoreDeleteSubs(f.ver.id)
  /\ feedRows' = CreatedFeedRows(feeds')

(* SubscriptionStore.delete, second store step: the index entry goes *)
DeleteIndex(d) ==
  /\ d \in deleting
  /\ deleting' = deleting \ {d}
  /\ idx' = StoreDeleteIdx(d)
  /\ lastEvent' = [op |-> "deleted", id |-> d.id, topic |-> d.topic,
                   callback |-> d.callback, status |-> d.status]
  /\ UNCHANGED <<subs, feeds, reqs, timers, inflight, queue, now, nreq>>

(* --------------- HubService.processContentNotification ----------------- *)
ContentDistributionMessage(subscription, topic, content, contentType) ==
  [type |-> "contentDistribution", subscription |-> subscription,
   feedUrl |-> topic, content |-> content, contentType |-> contentType]

(* the subscriptions a notification is queued for *)
Receives(subscription) ==
  subscription.verified

RECURSIVE Messages(_, _, _, _)
Messages(subscriptions, topic, content, contentType) ==
  IF subscriptions = <<>> THEN <<>>
  ELSE (IF Receives(Head(subscriptions))
        THEN <<ContentDistributionMessage(Head(subscriptions), topic, content, contentType)>>
        ELSE <<>>)
         \o Messages(Tail(subscriptions), topic, content, contentType)

processContentNotification(topic, content, contentType) ==
  /\ Len(queue) + Len(Messages(getByTopic(topic), topic, content, contentType)) <= MaxQueue
  /\ queue' = queue \o Messages(getByTopic(topic), topic, content, contentType)
  /\ lastEvent' = [op |-> "notify", topic |-> topic, content |-> content,
                   contentType |-> contentType, before |-> Len(queue),
                   count |-> Len(Messages(getByTopic(topic), topic, content, contentType))]
  /\ UNCHANGED <<subs, idx, feeds, reqs, timers, inflight, deleting, now, nreq>>

(* ------------- the queue listener: HubService.distributeContent -------- *)
distributeContent(st) ==
  /\ queue # <<>>
  /\ queue' = Tail(queue)
  /\ lastEvent' = [op |-> "deliver", callback |-> Head(queue).subscription.callback,
                   content |-> Head(queue).content, ok |-> IsOk(st)]
  /\ UNCHANGED <<subs, idx, feeds, reqs, timers, inflight, deleting, now, nreq>>

(* processContentNotification between its awaits: the read of the        *)
(* subscribers, then one enqueue per verified subscriber; the response    *)
(* follows the last enqueue                                               *)
Accepting(c, rest) ==
  IF rest = <<>>
  THEN /\ calls' = calls \ {c}
       /\ order' = [order EXCEPT !.accepted = Append(@, c.content)]
  ELSE /\ calls' = (calls \ {c}) \cup {[c EXCEPT !.todo = rest]}
       /\ order' = order

NotifyRead(topic, content, contentType) ==
  /\ \A c \in calls : c.op = "notify" => c.content # content
  /\ \A k \in 1..Len(order.accepted) : order.accepted[k] # content
  /\ LET c == [op |-> "notify", topic |-> topic, content |-> content,
               contentType |-> contentType,
               todo |-> SelectSeq(getByTopic(topic), Receives)]
     IN  Accepting(c, c.todo)
  /\ lastEvent' = [op |-> "notifyRead", topic |-> topic, content |-> content]
  /\ UNCHANGED <<hubVars, queue, now, feedRows, pollVars, extVars, feedStore>>

NotifyEnqueue(c) ==
  /\ c \in calls
  /\ c.op = "notify"
  /\ Len(queue) < MaxQueue
  /\ queue' = Append(queue, ContentDistributionMessage(Head(c.todo), c.topic,
                                                       c.content, c.contentType))
  /\ Accepting(c, Tail(c.todo))
  /\ lastEvent' = [op |-> "enqueue", topic |-> c.topic, content |-> c.content,
                   callback |-> Head(c.todo).callback,
                   accepted |-> Tail(c.todo) = <<>>]
  /\ UNCHANGED <<hubVars, now, feedRows, pollVars, extVars, feedStore>>

(* the queue listener, with the POST it makes written down *)
DeliverInOrder(st) ==
  /\ distributeContent(st)
  /\ order' = [order EXCEPT
                 !.posted = Append(@, [callback |-> Head(queue).subscription.callback,
                                       content |-> Head(queue).content])]
  /\ UNCHANGED <<feedRows, pollVars, extVars, calls, feedStore>>

(* ------------------- FeedStore.getFeedsToUpdate ------------------------ *)
IsDue_IgnoresWebSub(feed, at) ==
  feed.active /\ (feed.lastFetched = NoDate
                    \/ at >= feed.lastFetched + feed.pollingInterval * 60)

(* the filter of getFeedsToUpdate; times are in seconds, the polling      *)
(* interval in minutes                                                    *)
IsDue(feed, at) ==
  IF ~feed.active THEN FALSE
  ELSE IF feed.supportsWebSub THEN FALSE
  ELSE IF feed.lastFetched = NoDate THEN TRUE
  ELSE at >= feed.lastFetched + feed.pollingInterval * 60

(* getAll lists the Feed rows in key order *)
FeedOrder ==
  <<"t1", "t2">>

RECURSIVE DueOf(_, _)
DueOf(urls, at) ==
  IF urls = <<>> THEN <<>>
  ELSE (IF feedRows[Head(urls)] # NoFeed /\ IsDue(feedRows[Head(urls)], at)
        THEN <<feedRows[Head(urls)]>>
        ELSE <<>>) \o DueOf(Tail(urls), at)

getFeedsToUpdate(at) ==
  DueOf(FeedOrder, at)

(* --------------------- PollingService.pollFeeds ------------------------ *)
(* the scheduler tick: every due feed is put on the queue as it is stored *)
pollFeeds ==
  /\ npoll < MaxPolls
  /\ Len(pollQueue) + Len(getFeedsToUpdate(now)) <= MaxPollQueue
  /\ npoll' = npoll + 1
  /\ pollQueue' = pollQueue \o getFeedsToUpdate(now)
  /\ lastEvent' = [op |-> "pollFeeds", at |-> now,
                   queued |-> { getFeedsToUpdate(now)[i].url :
                                  i \in 1..Len(getFeedsToUpdate(now)) }]
  /\ UNCHANGED <<webVars, hubVars, queue, now, feedRows, items, itemIdx, polling, upstream>>

(* ---------------------- PollingService.pollFeed ------------------------ *)
(* bookkeeping, not program state: a poll is fresh when the feed it was   *)
(* handed equals the stored row and no other poll of the feed runs        *)
(* between its fetch and its last write                                   *)
Overlapped(p, url) ==
  IF p.feed.url = url THEN [p EXCEPT !.fresh = FALSE] ELSE p

IsFresh(feed) ==
  /\ feed = feedRows[feed.url]
  /\ \A p \in polling : p.feed.url # feed.url

(* polls in progress are told apart by a slot number *)
FreeSlot ==
  CHOOSE k \in 1..(Cardinality(polling) + 1) : \A p \in polling : p.k # k

(* the entry loop: which entries are written, in document order.  id is   *)
(* the id of the stored item that is written over, NoItemId for a new one *)
RECURSIVE Plan(_, _)
Plan(feed, entries) ==
  IF entries = <<>> THEN <<>>
  ELSE IF Head(entries).guid = NoGuid
       THEN Plan(feed, Tail(entries))
  ELSE IF feed.lastProcessedEntryId # NoGuid
            /\ Head(entries).guid = feed.lastProcessedEntryId
       THEN <<>>
  ELSE LET entry == Head(entries)
           existingItem == getItemByFeedAndGuid(feed.url, entry.guid)
       IN  IF existingItem # NoItem
           THEN IF entry.updated # 0 /\ existingItem.updated # 0
                THEN IF entry.updated <= existingItem.updated
                     THEN Plan(feed, Tail(entries))
                     ELSE <<[id |-> existingItem.id, entry |-> entry]>>
                            \o Plan(feed, Tail(entries))
                ELSE Plan(feed, Tail(entries))
           ELSE <<[id |-> NoItemId, entry |-> entry]>> \o Plan(feed, Tail(entries))

(* the feed object after a 2xx answer: error state reset, validators and  *)
(* the hub link taken from the answer                                     *)
Fetched(feed, at, doc) ==
  [feed EXCEPT !.lastFetched = at,
               !.errorCount = 0,
               !.lastError = FALSE,
               !.etag = doc,
               !.supportsWebSub = IF Docs[doc].hub THEN TRUE ELSE @]

(* what a poll returned, with what it sent and was served *)
PollResult(feed, sent, st, doc, message, newItems, fresh) ==
  [op |-> "poll", url |-> feed.url, status |-> st, fetched |-> TRUE,
   success |-> message \in {"not modified", "polled"},
   message |-> message, newItems |-> newItems, notified |-> newItems > 0,
   sent |-> sent, doc |-> doc, fresh |-> fresh]

Skipped(feed, message) ==
  [op |-> "poll", url |-> feed.url, fetched |-> FALSE, success |-> FALSE,
   message |-> message, newItems |-> 0, notified |-> FALSE]

PolledRow_DropsLastProcessed(feed, st, parses, at) ==
  IF st = 0
  THEN [feed EXCEPT !.errorCount = @ + 1, !.lastError = TRUE]
  ELSE IF st = 304
  THEN [feed EXCEPT !.lastFetched = at, !.lastProcessedEntryId = NoGuid]
  ELSE IF ~IsOk(st)
  THEN [feed EXCEPT !.lastFetched = at, !.errorCount = @ + 1, !.lastError = TRUE]
  ELSE [feed EXCEPT !.lastFetched = at, !.errorCount = 1, !.lastError = TRUE,
                    !.etag = upstream.doc]

(* the row written by a poll that ends without reading any item: the      *)
(* fetch threw (status 0), 304, a non-2xx status, or a 2xx body that      *)
(* parseFeed rejects (the catch block counts an error on the feed object  *)
(* whose error state was just reset)                                      *)
PolledRow(feed, st, parses, at) ==
  IF st = 0
  THEN [feed EXCEPT !.errorCount = @ + 1, !.lastError = TRUE]
  ELSE IF st = 304
  THEN [feed EXCEPT !.lastFetched = at]
  ELSE IF ~IsOk(st)
  THEN [feed EXCEPT !.lastFetched = at, !.errorCount = @ + 1, !.lastError = TRUE]
  ELSE [feed EXCEPT !.lastFetched = at, !.errorCount = 1, !.lastError = TRUE,
                    !.etag = upstream.doc]

PollMessage(st) ==
  IF st = 304 THEN "not modified" ELSE "error"

(* the queue listener takes a Feed message and runs pollFeed on it, up to *)
(* and including the lookups of the stored items.  A server answers 304   *)
(* only to the validators of the document it serves.                      *)
PollFetch(st, parses, jitter, contentType) ==
  /\ pollQueue # <<>>
  /\ pollQueue' = Tail(pollQueue)
  /\ UNCHANGED <<webVars, hubVars, queue, now, items, itemIdx, upstream, npoll>>
  /\ LET feed == Head(pollQueue)
         at == now - jitter * 60
     IN
     IF ~feed.active
     THEN /\ lastEvent' = Skipped(feed, "inactive")
          /\ UNCHANGED <<feedRows, polling>>
     ELSE IF feed.supportsWebSub
     THEN /\ lastEvent' = Skipped(feed, "websub")
          /\ UNCHANGED <<feedRows, polling>>
     ELSE /\ st = 304 => (feed.etag # NoEtag /\ feed.etag = upstream.doc)
          /\ st # 200 => parses
          /\ st = 0 => jitter = 0
          /\ ~(st = 200 /\ parses) => contentType = NoContentType
          /\ IF st = 200 /\ parses
             THEN /\ Cardinality(polling) < MaxPolling
                  /\ polling' = { Overlapped(p, feed.url) : p \in polling }
                                   \cup {[k |-> FreeSlot,
                                          feed |-> Fetched(feed, at, upstream.doc),
                                          sent |-> feed.etag,
                                          doc |-> upstream.doc,
                                          contentType |-> contentType,
                                          plan |-> Plan(feed, Docs[upstream.doc].entries),
                                          fresh |-> IsFresh(feed)]}
                  /\ feedRows' = feedRows
                  /\ lastEvent' = [op |-> "fetched", url |-> feed.url,
                                   doc |-> upstream.doc]
             ELSE /\ polling' = { Overlapped(p, feed.url) : p \in polling }
                  /\ feedRows' = FeedUpdate(PolledRow(feed, st, parses, at))
                  /\ lastEvent' = PollResult(feed, feed.etag, st, upstream.doc,
                                             PollMessage(st), 0, IsFresh(feed))


(* crypto.randomUUID(): an id no stored item has *)
FreshItemId(its) ==
  CHOOSE i \in ItemIds :
    its[i] = NoItem /\ \A j \in ItemIds : its[j] = NoItem => i <= j

(* FeedStore.createItem: { id, ...item }, the row, then the index entry.  *)
(* An item that carries the id of a stored item is written over it.       *)
createItem(store, feedId, id, entry) ==
  [items |-> [store.items EXCEPT ![id] = [id |-> id, feedId |-> feedId,
                                          guid |-> entry.guid,
                                          updated |-> entry.updated]],
   itemIdx |-> [store.itemIdx EXCEPT ![<<feedId, entry.guid>>] = id]]

RECURSIVE Written(_, _, _)
Written(plan, feedId, store) ==
  IF plan = <<>> THEN store
  ELSE Written(Tail(plan), feedId,
               createItem(store, feedId,
                          IF Head(plan).id # NoItemId THEN Head(plan).id
                          ELSE FreshItemId(store.items),
                          Head(plan).entry))

(* newItems: the entries that were created, not written over *)
NewItems(plan) ==
  Cardinality({ i \in 1..Len(plan) : plan[i].id = NoItemId })

Processed_FirstListed(feed, doc) ==
  IF Docs[doc].entries # <<>> /\ Docs[doc].entries[1].guid # NoGuid
  THEN [feed EXCEPT !.lastProcessedEntryId = Docs[doc].entries[1].guid]
  ELSE feed

(* feed.lastProcessedEntryId = mostRecentEntryId, when there is one *)
Processed(feed, doc) ==
  IF mostRecentEntryId(Docs[doc].entries) # NoGuid
  THEN [feed EXCEPT !.lastProcessedEntryId = mostRecentEntryId(Docs[doc].entries)]
  ELSE feed

(* response.headers.get("Content-Type") || "application/rss+xml" *)
NotifiedContentType(contentType) ==
  IF contentType = NoContentType THEN "application/rss+xml" ELSE contentType

NotifiesWhen_AnyWrite(plan) ==
  Len(plan) > 0

(* if (newItems > 0): the subscribers are notified *)
NotifiesWhen(plan) ==
  NewItems(plan) > 0

(* the rest of pollFeed after the lookups: the item writes, the feed      *)
(* update, and the content notification when items were created           *)
PollCommit(p) ==
  /\ p \in polling
  /\ NewItems(p.plan) <= Cardinality({ i \in ItemIds : items[i] = NoItem })
  /\ polling' = polling \ {p}
  /\ items' = Written(p.plan, p.feed.url, [items |-> items, itemIdx |-> itemIdx]).items
  /\ itemIdx' = Written(p.plan, p.feed.url, [items |-> items, itemIdx |-> itemIdx]).itemIdx
  /\ feedRows' = FeedUpdate(Processed(p.feed, p.doc))
  /\ queue' = IF NotifiesWhen(p.plan)
              THEN queue \o Messages(getByTopic(p.feed.url), p.feed.url, p.doc,
                                     NotifiedContentType(p.contentType))
              ELSE queue
  /\ lastEvent' = PollResult(p.feed, p.sent, 200, p.doc, "polled",
                             NewItems(p.plan), p.fresh)
                     @@ [contentType |-> p.contentType]
  /\ UNCHANGED <<webVars, hubVars, now, pollQueue, upstream, npoll>>

(* ----------------- the environment of the polling engine --------------- *)
(* the feed url starts serving another document *)
Publish(doc) ==
  /\ upstream.n < MaxPublish
  /\ doc # upstream.doc
  /\ upstream' = [doc |-> doc, n |-> upstream.n + 1]
  /\ lastEvent' = [op |-> "publish", doc |-> doc]
  /\ UNCHANGED <<webVars, hubVars, queue, now, feedRows, items, itemIdx, pollQueue,
                 polling, npoll>>

(* a polling interval passes *)
Wait ==
  /\ now < MaxWaits * defaultPollingIntervalMinutes * 60
  /\ now' = now + defaultPollingIntervalMinutes * 60
  /\ lastEvent' = [op |-> "wait"]
  /\ UNCHANGED <<webVars, hubVars, queue, feedRows, pollVars>>

(* checkAndAddFeedForPolling as WebhookService.subscribeToOwnHub calls it *)
AddFeed(topic, up) ==
  /\ topic \notin feeds
  /\ feeds' = checkAndAddFeedForPolling(topic, up, feeds).feeds
  /\ feedRows' = CreatedFeedRows(feeds')
  /\ lastEvent' = [op |-> "addFeed", topic |-> topic,
                   success |-> checkAndAddFeedForPolling(topic, up, feeds).success]
  /\ UNCHANGED <<subs, idx, reqs, timers, inflight, deleting, nreq, queue, now,
                 pollVars, webVars>>

(* ------------------- WebhookService.subscribeToFeed -------------------- *)
(* the verification token as text, and the bodies a user callback may     *)
(* answer the verification GET with                                       *)
TokenText(n) ==
  <<"tk", ToString(n)>>
EchoBodies(n) ==
  {TokenText(n), <<" ">> \o TokenText(n) \o <<" ">>, <<"no">>}

(* sendVerificationRequest: response.ok and responseText.trim() === token *)
TokenEchoed(st, body, token) ==
  IsOk(st) /\ Trim(body) = TokenText(token)

NoHub ==
  ""

(* a call is alone while no other handler writes the external             *)
(* subscriptions during it                                                *)
Disturbed(S) ==
  {IF c.op = "subscribe" THEN [c EXCEPT !.alone = FALSE] ELSE c : c \in S}

SubscribeCall(phase, topic, url, cb, depth) ==
  [op |-> "subscribe", phase |-> phase, topic |-> topic, url |-> url, cb |-> cb,
   echoed |-> FALSE, sub |-> NoExt, depth |-> depth,
   alone |-> \A c \in calls : c.op # "subscribe"]

(* the user callback part: look the callback up, create it when it is     *)
(* missing, send the verification GET unless it is verified already.      *)
(* depth counts the subscribeToFeed frames below this one on the stack    *)
CallbackPart(others, topic, url, depth) ==
  IF url = NoUrl
  THEN /\ calls' = others \cup {SubscribeCall("lookup", topic, url, NoCallback, depth)}
       /\ UNCHANGED <<userCallbacks, ucbIdx>>
  ELSE IF getByTopicAndUrl(topic, url) # NoCallback
  THEN /\ calls' = others \cup
            {SubscribeCall(IF getByTopicAndUrl(topic, url).verified
                             \/ getByTopicAndUrl(topic, url).verificationToken = NoId
                           THEN "lookup" ELSE "verify",
                           topic, url, getByTopicAndUrl(topic, url), depth)}
       /\ UNCHANGED <<userCallbacks, ucbIdx>>
  ELSE /\ \E i \in UcbIds : userCallbacks[i] = NoCallback
       /\ userCallbacks' = [userCallbacks EXCEPT
                              ![FreshUcbId] = NewCallback(FreshUcbId, topic, url)]
       /\ ucbIdx' = [ucbIdx EXCEPT ![<<topic, url>>] = FreshUcbId]
       /\ calls' = others \cup
            {SubscribeCall("verify", topic, url, NewCallback(FreshUcbId, topic, url),
                          depth)}

SubscribeStart(topic, url) ==
  /\ Cardinality(calls) < MaxCalls
  /\ CallbackPart(Disturbed(calls), topic, url, 0)
  /\ lastEvent' = [op |-> "subscribeToFeed", topic |-> topic, url |-> url]
  /\ UNCHANGED <<extSubs, extByTopic, extByCallback, order, feedStore>>
  /\ UNCHANGED <<hubVars, queue, now, feedRows, pollVars>>

(* the verification GET is answered; its result is not looked at *)
SubscribeVerified(c, st, body) ==
  /\ c \in calls
  /\ c.op = "subscribe"
  /\ c.phase = "verify"
  /\ calls' = (calls \ {c}) \cup
       {[c EXCEPT !.phase = "lookup",
                  !.echoed = TokenEchoed(st, body, c.cb.verificationToken)]}
  /\ lastEvent' = [op |-> "verification", id |-> c.cb.id, url |-> c.url,
                   token |-> c.cb.verificationToken,
                   echoed |-> TokenEchoed(st, body, c.cb.verificationToken)]
  /\ UNCHANGED <<extVars, order, feedStore>>
  /\ UNCHANGED <<hubVars, queue, now, feedRows, pollVars>>

(* what a finished subscribeToFeed returned *)
Subscribed(c, success, id, ownHub) ==
  [op |-> "subscribed", topic |-> c.topic, url |-> c.url, cb |-> c.cb.id,
   echoed |-> c.echoed, success |-> success, id |-> id, ownHub |-> ownHub,
   alone |-> c.alone]

(* an existing subscription of the topic ends the call *)
SubscribeLookup(c) ==
  /\ c \in calls
  /\ c.op = "subscribe"
  /\ c.phase = "lookup"
  /\ IF ExtGetByTopic(c.topic) # NoExt
     THEN /\ calls' = calls \ {c}
          /\ lastEvent' = Subscribed(c, TRUE, ExtGetByTopic(c.topic).id, FALSE)
     ELSE /\ calls' = (calls \ {c}) \cup {[c EXCEPT !.phase = "fetch"]}
          /\ lastEvent' = [op |-> "lookup", topic |-> c.topic]
  /\ UNCHANGED <<extVars, order, feedStore>>
  /\ UNCHANGED <<hubVars, queue, now, feedRows, pollVars>>

(* the row subscribeToOwnHub or subscribeToExternalHub creates, and the   *)
(* call waiting for what follows it                                       *)
CreateExt(c, hub, usingFallback, phase) ==
  /\ \E i \in ExtIds : extSubs[i] = NoExt
  /\ LET row == NewExt(FreshExtId, c.topic, hub, usingFallback)
         store == ExtCreate(ExtStore, row)
     IN  /\ extSubs' = store.extSubs
         /\ extByTopic' = store.extByTopic
         /\ extByCallback' = store.extByCallback
         /\ calls' = Disturbed(calls \ {c}) \cup
                       {[c EXCEPT !.phase = phase, !.sub = row]}

(* the topic was fetched: a hub was found, or the page names a feed, or   *)
(* the own hub is the fallback                                            *)
SubscribeDiscover(c, ok, hub) ==
  /\ c \in calls
  /\ c.op = "subscribe"
  /\ c.phase = "fetch"
  /\ IF ok /\ hub # NoHub
     THEN /\ CreateExt(c, hub, FALSE, "external")
          /\ UNCHANGED <<userCallbacks, ucbIdx>>
     ELSE IF ok /\ Web[c.topic].kind = "html" /\ Web[c.topic].link # ""
     THEN /\ CallbackPart(calls \ {c}, Web[c.topic].link, c.url, c.depth + 1)
          /\ UNCHANGED <<extSubs, extByTopic, extByCallback>>
     ELSE /\ CreateExt(c, OwnHub, TRUE, "own")
          /\ UNCHANGED <<userCallbacks, ucbIdx>>
  /\ lastEvent' = [op |-> "discovered", topic |-> c.topic, ok |-> ok, hub |-> hub]
  /\ UNCHANGED <<order, feedStore>>
  /\ UNCHANGED <<hubVars, queue, now, feedRows, pollVars>>

(* subscribeToExternalHub: the hub answered the subscribe POST, or the    *)
(* POST failed (status 0); a refusal is counted and the own hub is used   *)
ExternalAnswer(c, st) ==
  /\ c \in calls
  /\ c.op = "subscribe"
  /\ c.phase = "external"
  /\ IF IsOk(st)
     THEN /\ calls' = calls \ {c}
          /\ UNCHANGED <<extSubs, extByTopic, extByCallback>>
          /\ lastEvent' = Subscribed(c, TRUE, c.sub.id, FALSE)
     ELSE /\ \E i \in ExtIds : extSubs[i] = NoExt
          /\ LET counted == IF st = 0 THEN ExtStore
                            ELSE ExtUpdate(ExtStore,
                                   [c.sub EXCEPT !.errorCount = @ + 1,
                                                 !.lastError = TRUE])
                 id == CHOOSE i \in ExtIds :
                         counted.extSubs[i] = NoExt
                           /\ \A j \in ExtIds : counted.extSubs[j] = NoExt => i <= j
                 row == NewExt(id, c.topic, OwnHub, TRUE)
                 store == ExtCreate(counted, row)
             IN  /\ extSubs' = store.extSubs
                 /\ extByTopic' = store.extByTopic
                 /\ extByCallback' = store.extByCallback
                 /\ calls' = Disturbed(calls \ {c}) \cup
                               {[c EXCEPT !.phase = "own", !.sub = row]}
          /\ lastEvent' = [op |-> "hubRefused", topic |-> c.topic,
                           id |-> c.sub.id, status |-> st]
  /\ UNCHANGED <<userCallbacks, ucbIdx, order, feedStore>>
  /\ UNCHANGED <<hubVars, queue, now, feedRows, pollVars>>

OwnHubSucceeds_Always(c, up) ==
  TRUE

(* subscribeToOwnHub after its create: a stored Feed, or                  *)
(* checkAndAddFeedForPolling succeeding, makes it a success               *)
OwnHubSucceeds(c, up) ==
  c.topic \in feeds \/ checkAndAddFeedForPolling(c.topic, up, feeds).success

OwnFinish(c, up) ==
  /\ c \in calls
  /\ c.op = "subscribe"
  /\ c.phase = "own"
  /\ feeds' = IF c.topic \in feeds THEN feeds
              ELSE checkAndAddFeedForPolling(c.topic, up, feeds).feeds
  /\ feedRows' = CreatedFeedRows(feeds')
  /\ extSubs' = ExtUpdate(ExtStore,
                  IF OwnHubSucceeds(c, up)
                  THEN [c.sub EXCEPT !.verified = TRUE]
                  ELSE [c.sub EXCEPT !.errorCount = @ + 1,
                                     !.lastError = TRUE]).extSubs
  /\ calls' = Disturbed(calls \ {c})
  /\ lastEvent' = Subscribed(c, OwnHubSucceeds(c, up), c.sub.id, TRUE)
  /\ UNCHANGED <<extByTopic, extByCallback, userCallbacks, ucbIdx, order, feedStore>>
  /\ UNCHANGED <<subs, idx, reqs, timers, inflight, deleting, nreq, queue, now,
                 pollVars>>

(* ------------------- WebhookService.handleCallback --------------------- *)
NoChallenge ==
  ""
CallbackChallenges ==
  {NoChallenge, "x"}
CallbackLeases ==
  {NoLease, [kind |-> "int", v |-> 0], [kind |-> "int", v |-> 600]}
UnknownPath ==
  MaxExt + 1

(* if (leaseSeconds) *)
LeaseGiven(lease) ==
  lease.kind = "int" /\ lease.v # 0

(* why a verification of intent is refused, "" when it is not *)
Refusal(path, topic, challenge) ==
  IF getByCallbackPath(path) = NoExt THEN "Subscription not found"
  ELSE IF getByCallbackPath(path).topic # topic THEN "Topic mismatch"
  ELSE IF challenge = NoChallenge THEN "Missing challenge"
  ELSE ""

(* mode subscribe or unsubscribe, up to the store operation *)
HcRead(path, mode, topic, challenge, lease) ==
  /\ Cardinality(calls) < MaxCalls
  /\ IF Refusal(path, topic, challenge) # ""
     THEN /\ calls' = calls
          /\ lastEvent' = [op |-> "callback", mode |-> mode, path |-> path,
                           topic |-> topic, received |-> challenge,
                           success |-> FALSE,
                           message |-> Refusal(path, topic, challenge)]
     ELSE /\ calls' = calls \cup
                       {[op |-> "hc", mode |-> mode, path |-> path,
                         topic |-> topic, challenge |-> challenge,
                         lease |-> lease, sub |-> getByCallbackPath(path)]}
          /\ lastEvent' = [op |-> "callbackRead", mode |-> mode, path |-> path,
                           topic |-> topic, received |-> challenge]
  /\ UNCHANGED <<extVars, order, feedStore>>
  /\ UNCHANGED <<hubVars, queue, now, feedRows, pollVars>>

(* the row mode subscribe writes *)
Confirmed(sub, lease) ==
  IF LeaseGiven(lease)
  THEN [sub EXCEPT !.verified = TRUE, !.leaseSeconds = lease.v,
                   !.expires = now + lease.v]
  ELSE [sub EXCEPT !.verified = TRUE]

(* the store operation of the mode, and the answer with the challenge *)
HcStore(store, c) ==
  IF c.mode = "subscribe"
  THEN ExtUpdate(store, Confirmed(c.sub, c.lease))
  ELSE ExtDelete(store, c.sub.id)

HcWrite(c) ==
  /\ c \in calls
  /\ c.op = "hc"
  /\ extSubs' = HcStore(ExtStore, c).extSubs
  /\ extByTopic' = HcStore(ExtStore, c).extByTopic
  /\ extByCallback' = HcStore(ExtStore, c).extByCallback
  /\ calls' = Disturbed(calls \ {c})
  /\ lastEvent' = [op |-> "callback", mode |-> c.mode, path |-> c.path,
                   topic |-> c.topic, received |-> c.challenge,
                   success |-> TRUE, returned |-> c.challenge,
                   id |-> c.sub.id, lease |-> c.lease]
  /\ UNCHANGED <<userCallbacks, ucbIdx, order, feedStore>>
  /\ UNCHANGED <<hubVars, queue, now, feedRows, pollVars>>

(* a content notification on a callback path *)
NoBody ==
  ""
ForwardBodies ==
  {NoBody, "b1"}

ForwardsTo_All(callback) ==
  TRUE

(* userCallbacks.filter((callback) => callback.verified) *)
ForwardsTo(callback) ==
  callback.verified

ContentRefusal(path, topic, body) ==
  IF getByCallbackPath(path) = NoExt THEN "Subscription not found"
  ELSE IF getByCallbackPath(path).topic # topic THEN "Topic mismatch"
  ELSE IF body = NoBody THEN "Invalid request"
  ELSE IF ~getByCallbackPath(path).verified THEN "Subscription not verified"
  ELSE ""

HcContent(path, topic, body) ==
  /\ Cardinality(calls) < MaxCalls
  /\ IF ContentRefusal(path, topic, body) = ""
        /\ SelectSeq(UcbGetByTopic(topic), ForwardsTo) # <<>>
     THEN calls' = calls \cup
            {[op |-> "forward", path |-> path, topic |-> topic, body |-> body,
              sub |-> getByCallbackPath(path),
              todo |-> SelectSeq(UcbGetByTopic(topic), ForwardsTo)]}
     ELSE calls' = calls
  /\ lastEvent' = [op |-> "content", path |-> path, topic |-> topic,
                   body |-> body,
                   success |-> ContentRefusal(path, topic, body) = "",
                   message |-> ContentRefusal(path, topic, body)]
  /\ UNCHANGED <<extVars, order, feedStore>>
  /\ UNCHANGED <<hubVars, queue, now, feedRows, pollVars>>

(* one POST of the forwarding loop, and the update of the callback *)
ForwardStep(c, st) ==
  /\ c \in calls
  /\ c.op = "forward"
  /\ IsOk(st) \/ Head(c.todo).errorCount < MaxErrors
  /\ userCallbacks' = [userCallbacks EXCEPT
       ![Head(c.todo).id] =
          [Head(c.todo) EXCEPT
             !.errorCount = IF IsOk(st) THEN 0 ELSE @ + 1]]
  /\ calls' = IF Tail(c.todo) = <<>> THEN calls \ {c}
              ELSE (calls \ {c}) \cup {[c EXCEPT !.todo = Tail(c.todo)]}
  /\ lastEvent' = [op |-> "forward", id |-> Head(c.todo).id,
                   url |-> Head(c.todo).callbackUrl, topic |-> c.topic,
                   path |-> c.path, sid |-> c.sub.id, body |-> c.body,
                   ok |-> IsOk(st)]
  /\ UNCHANGED <<extSubs, extByTopic, extByCallback, ucbIdx, order, feedStore>>
  /\ UNCHANGED <<hubVars, queue, now, feedRows, pollVars>>

(* ------------------- WebhookService.verifyCallback --------------------- *)
(* callbacks.find((c) => c.verificationToken === token) over getAll *)
HoldersOf(token) ==
  {i \in UcbIds : userCallbacks[i] # NoCallback
                    /\ userCallbacks[i].verificationToken = token}

FoundBy(token) ==
  IF HoldersOf(token) = {} THEN NoCallback
  ELSE userCallbacks[CHOOSE i \in HoldersOf(token) :
                       \A j \in HoldersOf(token) : i <= j]

TokenExpired_Never(callback) ==
  FALSE

(* callback.verificationExpires && callback.verificationExpires < now *)
TokenExpired(callback) ==
  callback.verificationExpires # NoDate /\ callback.verificationExpires < now

(* a token of the URL is a non-empty string, so it never equals the       *)
(* cleared token of a verified row                                        *)
verifyCallback(token) ==
  /\ token # NoId
  /\ IF FoundBy(token) # NoCallback /\ ~TokenExpired(FoundBy(token))
     THEN /\ userCallbacks' = [userCallbacks EXCEPT
               ![FoundBy(token).id] =
                  [FoundBy(token) EXCEPT !.verified = TRUE,
                                         !.verificationToken = NoId,
                                         !.verificationExpires = NoDate]]
          /\ lastEvent' = [op |-> "verifyCallback", token |-> token,
                           success |-> TRUE, id |-> FoundBy(token).id]
     ELSE /\ userCallbacks' = userCallbacks
          /\ lastEvent' = [op |-> "verifyCallback", token |-> token,
                           success |-> FALSE, id |-> NoId]
  /\ UNCHANGED <<extSubs, extByTopic, extByCallback, ucbIdx, calls, order, feedStore>>
  /\ UNCHANGED <<hubVars, queue, now, feedRows, pollVars>>

(* ----------------- WebhookService.renewSubscriptions ------------------- *)
(* the scheduled job reads the subscriptions needing renewal; Deno.cron   *)
(* does not start a job while its previous run is unfinished              *)
RenewStart ==
  /\ Cardinality(calls) < MaxCalls
  /\ \A c \in calls : c.op # "renew"
  /\ calls' = IF getNeedingRenewal = <<>> THEN calls
              ELSE calls \cup {[op |-> "renew", at |-> now,
                                todo |-> getNeedingRenewal]}
  /\ lastEvent' = [op |-> "renewSubscriptions", at |-> now,
                   count |-> Len(getNeedingRenewal)]
  /\ UNCHANGED <<extVars, order, feedStore>>
  /\ UNCHANGED <<hubVars, queue, now, feedRows, pollVars>>

(* the row one turn of the renewal loop writes: a fallback subscription   *)
(* is extended at once, another is re-subscribed at its hub               *)
Renewed(sub, st) ==
  IF sub.usingFallback
  THEN [sub EXCEPT !.expires = now + sub.leaseSeconds, !.lastRenewed = now]
  ELSE IF IsOk(st) THEN [sub EXCEPT !.lastRenewed = now]
  ELSE [sub EXCEPT !.errorCount = @ + 1, !.lastError = TRUE]

RenewStep(c, st) ==
  /\ c \in calls
  /\ c.op = "renew"
  /\ Head(c.todo).usingFallback => st = 200
  /\ (~Head(c.todo).usingFallback /\ ~IsOk(st))
       => Head(c.todo).errorCount < MaxErrors
  /\ extSubs' = ExtUpdate(ExtStore, Renewed(Head(c.todo), st)).extSubs
  /\ calls' = IF Tail(c.todo) = <<>> THEN calls \ {c}
              ELSE (calls \ {c}) \cup {[c EXCEPT !.todo = Tail(c.todo)]}
  /\ lastEvent' = [op |-> "renewed", id |-> Head(c.todo).id, at |-> c.at,
                   fallback |-> Head(c.todo).usingFallback,
                   posted |-> ~Head(c.todo).usingFallback,
                   hub |-> Head(c.todo).hub, secret |-> Head(c.todo).secret,
                   callbackPath |-> Head(c.todo).callbackPath, status |-> st]
  /\ UNCHANGED <<extByTopic, extByCallback, userCallbacks, ucbIdx, order, feedStore>>
  /\ UNCHANGED <<hubVars, queue, now, feedRows, pollVars>>

(* -------------- WebhookService.clearExpiredSubscriptions --------------- *)
(* the sweep reads the expired ExternalSubscriptions and deletes them     *)
(* one by one; the inbound Subscriptions of the hub are not looked at     *)
ClearStart ==
  /\ Cardinality(calls) < MaxCalls
  /\ \A c \in calls : c.op # "clear"
  /\ calls' = IF getExpired = <<>> THEN calls
              ELSE calls \cup {[op |-> "clear", at |-> now, todo |-> getExpired]}
  /\ lastEvent' = IF getExpired = <<>>
                  THEN [op |-> "cleared", at |-> now, cleared |-> 0]
                  ELSE [op |-> "clearing", at |-> now]
  /\ UNCHANGED <<extVars, order, feedStore>>
  /\ UNCHANGED <<hubVars, queue, now, feedRows, pollVars>>

ClearStep(c) ==
  /\ c \in calls
  /\ c.op = "clear"
  /\ extSubs' = ExtDelete(ExtStore, Head(c.todo).id).extSubs
  /\ extByTopic' = ExtDelete(ExtStore, Head(c.todo).id).extByTopic
  /\ extByCallback' = ExtDelete(ExtStore, Head(c.todo).id).extByCallback
  /\ calls' = IF Tail(c.todo) = <<>> THEN Disturbed(calls \ {c})
              ELSE Disturbed(calls \ {c}) \cup {[c EXCEPT !.todo = Tail(c.todo)]}
  /\ lastEvent' = IF Tail(c.todo) = <<>>
                  THEN [op |-> "cleared", at |-> c.at, cleared |-> 1]
                  ELSE [op |-> "clearing", at |-> c.at]
  /\ UNCHANGED <<userCallbacks, ucbIdx, order, feedStore>>
  /\ UNCHANGED <<hubVars, queue, now, feedRows, pollVars>>

(* a long time passes *)
Sleep(d) ==
  /\ now < MaxSleeps * defaultLeaseSeconds
  /\ now' = now + d
  /\ lastEvent' = [op |-> "sleep", d |-> d]
  /\ UNCHANGED <<webVars, hubVars, queue, feedRows, pollVars>>

(* ------------------------- the environment ----------------------------- *)
(* time passes.  The clock is only ever compared with the window of a      *)
(* verification that is waiting for its timer, so the model lets it run    *)
(* while one is waiting.                                                   *)
Tick ==
  /\ now < MaxTicks * TickSeconds
  /\ timers # {}
  /\ now' = now + TickSeconds
  /\ lastEvent' = [op |-> "tick"]
  /\ UNCHANGED <<feedRows, pollVars, webVars>>
  /\ UNCHANGED <<subs, idx, feeds, reqs, timers, inflight, deleting, queue, nreq>>

(* the process restarts: handlers in progress and setTimeout callbacks are *)
(* gone; the KV store and the KV queue stay                                *)
Restart ==
  /\ reqs # {} \/ timers # {} \/ inflight # {} \/ deleting # {} \/ polling # {}
  /\ reqs' = {}
  /\ timers' = {}
  /\ inflight' = {}
  /\ deleting' = {}
  /\ polling' = {}
  /\ UNCHANGED <<feedRows, items, itemIdx, pollQueue, upstream, npoll>>
  /\ UNCHANGED webVars
  /\ lastEvent' = [op |-> "restart"]
  /\ UNCHANGED <<subs, idx, feeds, queue, now, nreq>>

Requests(pairs, leases) ==
  \E mode \in Modes, p \in pairs, lease \in leases :
     ReqStart(mode, p[1], p[2], lease) /\ UNCHANGED <<feedRows, pollVars, webVars>>

Writes ==
  \E r \in reqs : ReqWrite(r) /\ UNCHANGED <<feedRows, pollVars, webVars>>

Verifies ==
  \E v \in timers : VerifyStart(v) /\ UNCHANGED <<feedRows, pollVars, webVars>>

Answers ==
  \E f \in inflight, st \in Statuses, up \in SUBSET Topics :
     \E body \in Bodies(f.ver.challenge) :
        VerifyRespond(f, st, body, up) /\ UNCHANGED <<pollVars, webVars>>

Deletes ==
  \E d \in deleting : DeleteIndex(d) /\ UNCHANGED <<feedRows, pollVars, webVars>>

Notifications ==
  \E topic \in Topics, content \in Contents, contentType \in ContentTypes :
     processContentNotification(topic, content, contentType)
       /\ UNCHANGED <<feedRows, pollVars, webVars>>

Deliveries ==
  \E st \in Statuses : distributeContent(st) /\ UNCHANGED <<feedRows, pollVars, webVars>>

(* the subscription lifecycle: requests (with the default lease),          *)
(* verifications, time, restarts                                           *)
Next ==
  \/ Requests(Pairs \cup {<<BadUrl, "c1">>}, {NoLease})
  \/ Writes
  \/ Verifies
  \/ Answers
  \/ Deletes
  \/ Tick
  \/ Restart

Spec ==
  Init /\ [][Next]_vars

(* publishing and fan-out over the subscription lifecycle, in a running    *)
(* process, within the verification window and with the default lease      *)
NextFanout ==
  \/ Requests(FanoutPairs, {NoLease})
  \/ Writes
  \/ Verifies
  \/ Answers
  \/ Deletes
  \/ Notifications
  \/ Deliveries

SpecFanout ==
  Init /\ [][NextFanout]_vars

(* two verified subscribers of t1 (callbacks c1 and c2), and the         *)
(* notifications of two contents, each handled step by step               *)
InitOrder ==
  /\ now = 0
  /\ subs = [i \in Ids |->
              IF i = 1 THEN VerifiedRow(NewRow(1, "t1", "c1", defaultLeaseSeconds, 1))
              ELSE IF i = 2
                   THEN VerifiedRow(NewRow(2, "t1", "c2", defaultLeaseSeconds, 2))
              ELSE NoRow]
  /\ idx = [p \in Topics \X Callbacks |->
              IF p = <<"t1", "c1">> THEN 1
              ELSE IF p = <<"t1", "c2">> THEN 2 ELSE NoId]
  /\ feeds = {}
  /\ reqs = {}
  /\ timers = {}
  /\ inflight = {}
  /\ deleting = {}
  /\ queue = <<>>
  /\ nreq = 2
  /\ feedRows = [u \in Topics |-> NoFeed]
  /\ items = [i \in ItemIds |-> NoItem]
  /\ itemIdx = [k \in FeedUrls \X Guids |-> NoItemId]
  /\ pollQueue = <<>>
  /\ polling = {}
  /\ upstream = [doc |-> 1, n |-> 0]
  /\ npoll = 0
  /\ extSubs = [i \in ExtIds |-> NoExt]
  /\ extByTopic = [t \in Pages |-> NoId]
  /\ extByCallback = [i \in ExtIds |-> NoId]
  /\ userCallbacks = [i \in UcbIds |-> NoCallback]
  /\ ucbIdx = [k \in Pages \X UserUrls |-> NoId]
  /\ calls = {}
  /\ order = NoOrder
  /\ feedStore = NoFeedStore
  /\ lastEvent = [op |-> "init"]

OrderStatuses ==
  {200, 500}

NextOrder ==
  \/ \E content \in Contents, contentType \in ContentTypes :
        NotifyRead("t1", content, contentType)
  \/ \E c \in calls : NotifyEnqueue(c)
  \/ \E st \in OrderStatuses : DeliverInOrder(st)

SpecOrder ==
  InitOrder /\ [][NextOrder]_vars

(* ---------------- stored rows of the webhook side --------------------- *)
(* What earlier calls of subscribeToFeed left in the store at time 0: for *)
(* each id no row, a row waiting for the external hub's verification      *)
(* ("pending"), a row the external hub has verified ("active"), or a      *)
(* verified fallback row; one row per topic.                              *)
NoChoice ==
  [kind |-> "none"]

ExtChoices ==
  {e \in [ExtIds -> {NoChoice} \cup
                      [kind : {"pending", "active", "fallback"}, topic : Topics]] :
     \A i, j \in ExtIds :
        (i # j /\ e[i] # NoChoice /\ e[j] # NoChoice) => e[i].topic # e[j].topic}

StoredExt(i, ch) ==
  IF ch = NoChoice THEN NoExt
  ELSE IF ch.kind = "pending" THEN NewExt(i, ch.topic, "h1", FALSE)
  ELSE IF ch.kind = "active"
       THEN [NewExt(i, ch.topic, "h1", FALSE) EXCEPT !.verified = TRUE]
  ELSE [NewExt(i, ch.topic, OwnHub, TRUE) EXCEPT !.verified = TRUE]

(* with or without a verified inbound Subscription (t1, c1) of the hub;   *)
(* for each id no row, a callback waiting for its verification, or a      *)
(* verified one; one row per topic and url                                *)
UcbChoices ==
  {u \in [UcbIds -> {NoChoice} \cup
                      [kind : {"pending", "verified"}, topic : Topics,
                       url : UserUrls]] :
     \A i, j \in UcbIds :
        (i # j /\ u[i] # NoChoice /\ u[j] # NoChoice)
          => <<u[i].topic, u[i].url>> # <<u[j].topic, u[j].url>>}

StoredCallback(i, ch) ==
  IF ch = NoChoice THEN NoCallback
  ELSE IF ch.kind = "pending" THEN NewCallback(i, ch.topic, ch.url)
  ELSE [NewCallback(i, ch.topic, ch.url) EXCEPT !.verified = TRUE,
                                                !.verificationToken = NoId,
                                                !.verificationExpires = NoDate]

NoExtChoice ==
  [i \in ExtIds |-> NoChoice]
NoUcbChoice ==
  [i \in UcbIds |-> NoChoice]

InitStored(inbound, es, us) ==
  /\ now = 0
  /\ subs = [i \in Ids |->
              IF inbound /\ i = 1
              THEN VerifiedRow(NewRow(1, "t1", "c1", defaultLeaseSeconds, 1))
              ELSE NoRow]
  /\ idx = [p \in Topics \X Callbacks |->
              IF inbound /\ p = <<"t1", "c1">> THEN 1 ELSE NoId]
  /\ feeds = {}
  /\ reqs = {}
  /\ timers = {}
  /\ inflight = {}
  /\ deleting = {}
  /\ queue = <<>>
  /\ nreq = IF inbound THEN 1 ELSE 0
  /\ feedRows = [u \in Topics |-> NoFeed]
  /\ items = [i \in ItemIds |-> NoItem]
  /\ itemIdx = [k \in FeedUrls \X Guids |-> NoItemId]
  /\ pollQueue = <<>>
  /\ polling = {}
  /\ upstream = [doc |-> 1, n |-> 0]
  /\ npoll = 0
  /\ \E e \in es, u \in us :
       /\ extSubs = [i \in ExtIds |-> StoredExt(i, e[i])]
       /\ extByTopic = [t \in Pages |->
            IF \E i \in ExtIds : e[i] # NoChoice /\ e[i].topic = t
            THEN CHOOSE i \in ExtIds : e[i] # NoChoice /\ e[i].topic = t
            ELSE NoId]
       /\ extByCallback = [i \in ExtIds |-> IF e[i] = NoChoice THEN NoId ELSE i]
       /\ userCallbacks = [i \in UcbIds |-> StoredCallback(i, u[i])]
       /\ ucbIdx = [k \in Pages \X UserUrls |->
            IF \E i \in UcbIds : u[i] # NoChoice /\ <<u[i].topic, u[i].url>> = k
            THEN CHOOSE i \in UcbIds : u[i] # NoChoice /\ <<u[i].topic, u[i].url>> = k
            ELSE NoId]
  /\ calls = {}
  /\ order = NoOrder
  /\ feedStore = NoFeedStore
  /\ lastEvent = [op |-> "init"]

(* the verification of intent on the callback paths of stored rows *)
InitIntent ==
  InitStored(FALSE, {e \in ExtChoices : e[1] = [kind |-> "pending", topic |-> "t1"]},
             {NoUcbChoice})

(* a hub confirms a subscription with or without hub.lease_seconds, and  *)
(* an unsubscription without                                              *)
IntentRequests ==
  {<<"subscribe", lease>> : lease \in CallbackLeases}
    \cup {<<"unsubscribe", NoLease>>}

NextIntent ==
  \/ \E path \in ExtIds \cup {UnknownPath}, r \in IntentRequests, topic \in Topics,
        challenge \in CallbackChallenges :
        HcRead(path, r[1], topic, challenge, r[2])
  \/ \E c \in calls : HcWrite(c)
  \/ Sleep(defaultLeaseSeconds)

SpecIntent ==
  InitIntent /\ [][NextIntent]_vars

(* content arriving on the callback path of a stored row of t1, with     *)
(* user callbacks of t1 stored, some verified and some not                *)
InitForward ==
  InitStored(FALSE, {e \in ExtChoices :
                /\ e[1] # NoChoice
                /\ \A i \in ExtIds : e[i] # NoChoice => (i = 1 /\ e[i].topic = "t1")},
             {u \in UcbChoices :
                /\ u[1] # NoChoice
                /\ \A i \in UcbIds : u[i] # NoChoice => u[i].topic = "t1"})

ForwardStatuses ==
  {0, 200, 500}

NextForward ==
  \/ \E path \in ExtIds \cup {UnknownPath}, topic \in Topics, body \in ForwardBodies :
        HcContent(path, topic, body)
  \/ \E c \in calls, st \in ForwardStatuses : ForwardStep(c, st)
  \/ \E token \in UcbIds : verifyCallback(token)

SpecForward ==
  InitForward /\ [][NextForward]_vars

(* the tokens of stored user callbacks are presented, in time or late *)
InitToken ==
  InitStored(FALSE, {NoExtChoice}, UcbChoices)

UnknownToken ==
  MaxUcb + 1

TokenWaits ==
  {UserTokenHours * 3600, UserTokenHours * 3600 + 1}

NextToken ==
  \/ \E token \in UcbIds \cup {UnknownToken} : verifyCallback(token)
  \/ \E d \in TokenWaits : Sleep(d)

SpecToken ==
  InitToken /\ [][NextToken]_vars

(* the renewal job over stored rows, as their leases run towards the end *)
InitRenew ==
  InitStored(FALSE, ExtChoices, {NoUcbChoice})

RenewWaits ==
  {defaultLeaseSeconds - renewalWindowMinutes * 60,
   defaultLeaseSeconds - renewalWindowMinutes * 60 + 1}

RenewStatuses ==
  {0, 200, 500}

NextRenew ==
  \/ RenewStart
  \/ \E c \in calls, st \in RenewStatuses : RenewStep(c, st)
  \/ \E d \in RenewWaits : Sleep(d)

SpecRenew ==
  InitRenew /\ [][NextRenew]_vars

(* the expiration sweep, with a verified inbound Subscription (t1, c1)    *)
(* and external rows stored, while leases run out and content is          *)
(* published                                                              *)
InitSweep ==
  InitStored(TRUE, {e \in ExtChoices : e[1] # NoChoice}, {NoUcbChoice})

SweepWaits ==
  {defaultLeaseSeconds + 1, 2 * defaultLeaseSeconds + 1}

NextSweep ==
  \/ ClearStart
  \/ \E c \in calls : ClearStep(c)
  \/ \E d \in SweepWaits : Sleep(d)
  \/ \E content \in Contents :
        processContentNotification("t1", content, "application/rss+xml")
          /\ UNCHANGED <<feedRows, pollVars, webVars>>
  \/ Deliveries

SpecSweep ==
  InitSweep /\ [][NextSweep]_vars

(* subscribeToFeed from an empty store, with and without a user callback *)
InitSubscribe ==
  InitStored(FALSE, {NoExtChoice}, {NoUcbChoice})

SubscribeUrls ==
  {NoUrl, "u1"}

SubscribeStatuses ==
  {0, 200, 500}

NextSubscribe ==
  \/ \E topic \in Topics, url \in SubscribeUrls : SubscribeStart(topic, url)
  \/ \E c \in calls, st \in SubscribeStatuses :
        \E body \in EchoBodies(IF c.cb = NoCallback THEN NoId
                               ELSE c.cb.verificationToken) :
           SubscribeVerified(c, st, body)
  \/ \E c \in calls : SubscribeLookup(c)
  \/ \E c \in calls, ok \in BOOLEAN, hub \in Hubs \cup {NoHub} :
        SubscribeDiscover(c, ok, hub)
  \/ \E c \in calls, st \in SubscribeStatuses : ExternalAnswer(c, st)
  \/ \E c \in calls, up \in SUBSET Topics : OwnFinish(c, up)

SpecSubscribe ==
  InitSubscribe /\ [][NextSubscribe]_vars

(* requests with every kind of hub.lease_seconds, and their verification *)
NextLease ==
  \/ Requests(Pairs, LeaseInputs)
  \/ Writes
  \/ Verifies
  \/ Answers
  \/ Deletes

SpecLease ==
  Init /\ [][NextLease]_vars

(* the polling engine on its own: feeds are added, the feed url changes   *)
(* what it serves, the scheduler ticks, the queue listener polls          *)
Polls ==
  \E st \in PollStatuses, parses \in BOOLEAN, jitter \in Jitters,
     contentType \in ResponseContentTypes :
     PollFetch(st, parses, jitter, contentType)

Commits ==
  \E p \in polling : PollCommit(p)

Publishes ==
  \E doc \in 1..Len(Docs) : Publish(doc)

AddFeeds ==
  \E topic \in Topics, up \in SUBSET Topics : AddFeed(topic, up)

NextPoll ==
  \/ AddFeeds
  \/ Publishes
  \/ pollFeeds
  \/ Polls
  \/ Commits
  \/ Wait

SpecPoll ==
  Init /\ [][NextPoll]_vars

(* the due set as a function of the stored feeds and the clock: feeds in  *)
(* every combination of the fields getFeedsToUpdate looks at (active is   *)
(* toggled by the administrator, supportsWebSub and lastFetched are set   *)
(* by polls, the interval comes from the configuration)                   *)
LastFetchedInputs ==
  {NoDate, 0, 1800, 3600}

PollingIntervalInputs ==
  {30, defaultPollingIntervalMinutes}

StoredFeeds(url) ==
  { [url |-> url, active |-> a, supportsWebSub |-> w, lastFetched |-> lf,
     etag |-> NoEtag, pollingInterval |-> pi, errorCount |-> 0,
     lastError |-> FALSE, lastProcessedEntryId |-> NoGuid] :
       a \in BOOLEAN, w \in BOOLEAN, lf \in LastFetchedInputs,
       pi \in PollingIntervalInputs }

InitDue ==
  /\ subs = [i \in Ids |-> NoRow]
  /\ idx = [p \in Topics \X Callbacks |-> NoId]
  /\ reqs = {}
  /\ timers = {}
  /\ inflight = {}
  /\ deleting = {}
  /\ queue = <<>>
  /\ now = 0
  /\ nreq = 0
  /\ feedRows \in [Topics -> UNION { StoredFeeds(u) : u \in Topics } \cup {NoFeed}]
  /\ \A u \in Topics : feedRows[u] # NoFeed => feedRows[u].url = u
  /\ feeds = { u \in Topics : feedRows[u] # NoFeed }
  /\ items = [i \in ItemIds |-> NoItem]
  /\ itemIdx = [k \in FeedUrls \X Guids |-> NoItemId]
  /\ pollQueue = <<>>
  /\ polling = {}
  /\ upstream = [doc |-> 1, n |-> 0]
  /\ npoll = 0
  /\ extSubs = [i \in ExtIds |-> NoExt]
  /\ extByTopic = [t \in Pages |-> NoId]
  /\ extByCallback = [i \in ExtIds |-> NoId]
  /\ userCallbacks = [i \in UcbIds |-> NoCallback]
  /\ ucbIdx = [k \in Pages \X UserUrls |-> NoId]
  /\ calls = {}
  /\ order = NoOrder
  /\ feedStore = NoFeedStore
  /\ lastEvent = [op |-> "init"]

NextDue ==
  \/ pollFeeds
  \/ Wait

SpecDue ==
  InitDue /\ [][NextDue]_vars

(* the polling engine while the feed url keeps serving one document,      *)
(* whichever that is                                                      *)
InitSteady ==
  /\ subs = [i \in Ids |-> NoRow]
  /\ idx = [p \in Topics \X Callbacks |-> NoId]
  /\ feeds = {}
  /\ reqs = {}
  /\ timers = {}
  /\ inflight = {}
  /\ deleting = {}
  /\ queue = <<>>
  /\ now = 0
  /\ nreq = 0
  /\ feedRows = [u \in Topics |-> NoFeed]
  /\ items = [i \in ItemIds |-> NoItem]
  /\ itemIdx = [k \in FeedUrls \X Guids |-> NoItemId]
  /\ pollQueue = <<>>
  /\ polling = {}
  /\ upstream \in { [doc |-> d, n |-> 0] : d \in 1..Len(Docs) }
  /\ npoll = 0
  /\ extSubs = [i \in ExtIds |-> NoExt]
  /\ extByTopic = [t \in Pages |-> NoId]
  /\ extByCallback = [i \in ExtIds |-> NoId]
  /\ userCallbacks = [i \in UcbIds |-> NoCallback]
  /\ ucbIdx = [k \in Pages \X UserUrls |-> NoId]
  /\ calls = {}
  /\ order = NoOrder
  /\ feedStore = NoFeedStore
  /\ lastEvent = [op |-> "init"]

NextSteady ==
  \/ AddFeeds
  \/ pollFeeds
  \/ Polls
  \/ Commits
  \/ Wait

SpecSteady ==
  InitSteady /\ [][NextSteady]_vars

(* polling a topic that has subscribers: a verified Subscription of t1    *)
(* (callback c1) and one that is still pending (callback c2), as the      *)
(* request handler and a verification leave them                          *)
InitNotify ==
  /\ now = 0
  /\ subs = [i \in Ids |->
              IF i = 1 THEN VerifiedRow(NewRow(1, "t1", "c1", defaultLeaseSeconds, 1))
              ELSE IF i = 2 THEN NewRow(2, "t1", "c2", defaultLeaseSeconds, 2)
              ELSE NoRow]
  /\ idx = [p \in Topics \X Callbacks |->
              IF p = <<"t1", "c1">> THEN 1
              ELSE IF p = <<"t1", "c2">> THEN 2 ELSE NoId]
  /\ feeds = {}
  /\ reqs = {}
  /\ timers = {}
  /\ inflight = {}
  /\ deleting = {}
  /\ queue = <<>>
  /\ nreq = 2
  /\ feedRows = [u \in Topics |-> NoFeed]
  /\ items = [i \in ItemIds |-> NoItem]
  /\ itemIdx = [k \in FeedUrls \X Guids |-> NoItemId]
  /\ pollQueue = <<>>
  /\ polling = {}
  /\ upstream = [doc |-> 1, n |-> 0]
  /\ npoll = 0
  /\ extSubs = [i \in ExtIds |-> NoExt]
  /\ extByTopic = [t \in Pages |-> NoId]
  /\ extByCallback = [i \in ExtIds |-> NoId]
  /\ userCallbacks = [i \in UcbIds |-> NoCallback]
  /\ ucbIdx = [k \in Pages \X UserUrls |-> NoId]
  /\ calls = {}
  /\ order = NoOrder
  /\ feedStore = NoFeedStore
  /\ lastEvent = [op |-> "init"]

(* the documents served here: one entry, then a newer version of it *)
NotifyDocs ==
  {2, 5}

NextNotify ==
  \/ AddFeeds
  \/ \E doc \in NotifyDocs : Publish(doc)
  \/ pollFeeds
  \/ \E st \in PollStatuses, parses \in BOOLEAN,
        contentType \in ResponseContentTypes :
        PollFetch(st, parses, 0, contentType)
  \/ Commits

SpecNotify ==
  InitNotify /\ [][NextNotify]_vars

(* ======================= properties of the hub ========================= *)
(* the last step applied the answer to a verification GET of this mode *)
AnsweredMode(mode) ==
  lastEvent.op = "answer" /\ lastEvent.mode = mode

(* ... and the answer was 2xx with a body that trims to the challenge *)
Echoed ==
  IsOk(lastEvent.status) /\ lastEvent.matched

(* the rows getByTopic returns for one callback *)
RowsFor(topic, callback) ==
  SelectSeq(getByTopic(topic), LAMBDA row : row.callback = callback)

(* C1: round trip.  When a subscribe request was accepted and its
   verification GET is answered 2xx with a body that trims to the challenge,
   getByTopic(topic) holds exactly one row for the callback and it is
   verified; when a following unsubscribe request is verified the same way,
   getByTopicAndCallback(topic, callback) is null.  The round trip is the one
   of a request that was alone on its (topic, callback) from its start to
   the answer. *)
C1_RoundTrip ==
  /\ (AnsweredMode("subscribe") /\ Echoed /\ lastEvent.solo)
       => /\ Len(RowsFor(lastEvent.topic, lastEvent.callback)) = 1
          /\ RowsFor(lastEvent.topic, lastEvent.callback)[1].verified
          /\ RowsFor(lastEvent.topic, lastEvent.callback)[1].id = lastEvent.id
  /\ (AnsweredMode("unsubscribe") /\ Echoed /\ lastEvent.solo)
       => getByTopicAndCallback(lastEvent.topic, lastEvent.callback) = NoRow

(* the end of a round trip: a verified row was removed by a verified
   unsubscribe *)
C1_Witness ==
  /\ AnsweredMode("unsubscribe") /\ Echoed /\ lastEvent.solo
  /\ lastEvent.was
  /\ getByTopicAndCallback(lastEvent.topic, lastEvent.callback) = NoRow

(* C5: when the verification GET of an unsubscribe request is answered with
   a non-2xx status, the Subscription row is gone once the answer has been
   handled, and once the delete has finished the (topic, callback) index
   entry of the row is gone too and no index entry points at the row. *)
C5_UnsubscribeDeadCallback ==
  /\ (AnsweredMode("unsubscribe") /\ lastEvent.status # 0 /\ ~IsOk(lastEvent.status))
       => ~Exists(lastEvent.id)
  /\ (lastEvent.op = "deleted" /\ ~IsOk(lastEvent.status))
       => /\ idx[<<lastEvent.topic, lastEvent.callback>>] = NoId
          /\ \A p \in Topics \X Callbacks : idx[p] # lastEvent.id

C5_Witness ==
  /\ lastEvent.op = "deleted" /\ lastEvent.status = 500
  /\ ~Exists(lastEvent.id)
  /\ idx[<<lastEvent.topic, lastEvent.callback>>] = NoId

(* the last step was processSubscriptionRequest accepting a request *)
AcceptedMode(mode) ==
  lastEvent.op = "request" /\ lastEvent.success /\ lastEvent.mode = mode

HasToken(row) ==
  row.verificationToken # NoToken \/ row.verificationExpires # NoDate

C3_VerifiedIsStable ==
  [][\A id \in Ids :
       (IsVerified(id) /\ subs'[id] # NoRow) => subs'[id].verified]_vars

(* C3 as amended: the verified flag of an existing row goes from true back
   to false only in the row write of processSubscriptionRequest accepting a
   new request for the row's topic and callback (a repeated subscribe resets
   it until the new verification); no verification resets it. *)
C3_ResetOnlyByRequest ==
  [][\A id \in Ids :
       (IsVerified(id) /\ subs'[id] # NoRow /\ ~subs'[id].verified)
         => (/\ lastEvent'.op = "request"
             /\ lastEvent'.success
             /\ lastEvent'.id = id
             /\ lastEvent'.topic = subs[id].topic
             /\ lastEvent'.callback = subs[id].callback)]_vars

(* a repeated subscribe was accepted for a verified row, which is pending
   again *)
C3_Witness ==
  /\ AcceptedMode("subscribe")
  /\ lastEvent.was
  /\ Exists(lastEvent.id)
  /\ ~subs[lastEvent.id].verified

(* C4: a row becomes verified only in the step that applies a 2xx answer
   whose trimmed body equals the challenge. *)
C4_VerifiedOnlyByEcho ==
  [][\A id \in Ids :
       (~IsVerified(id) /\ subs'[id] # NoRow /\ subs'[id].verified)
         => (/\ lastEvent'.op = "answer"
             /\ lastEvent'.id = id
             /\ IsOk(lastEvent'.status)
             /\ lastEvent'.matched)]_vars

(* C6: when the verification GET of an unsubscribe request is answered 2xx
   with a body that differs from the challenge, the row is gone afterwards. *)
C6_UnsubscribeMismatchDeletes ==
  (AnsweredMode("unsubscribe") /\ IsOk(lastEvent.status) /\ ~lastEvent.matched)
    => ~Exists(lastEvent.id)

(* C7: applying the answer of a verification whose token is no longer the
   row's token (or whose row is gone) changes neither a Subscription row
   nor the index. *)
C7_StaleVerificationIsDropped ==
  [][(lastEvent'.op = "answer" /\ lastEvent'.stale /\ lastEvent' # lastEvent)
       => (subs' = subs /\ idx' = idx)]_vars

(* C8: the Verify work of an accepted subscribe request is durable: it
   leaves the pending work only by the verification handler taking it up. *)
C8_VerifyWorkIsDurable ==
  [][\A v \in timers :
       (/\ v.mode = "subscribe"
        /\ \A w \in timers' : w.verificationToken # v.verificationToken)
         => (lastEvent'.op = "verify"
             /\ lastEvent'.token = v.verificationToken)]_vars

(* the messages the last content notification put on the queue *)
Enqueued ==
  SubSeq(queue, lastEvent.before + 1, Len(queue))

(* C9: a content notification enqueues exactly one message, with the body
   unchanged, for every stored Subscription of the topic that is verified,
   none for any other, and returns the number of messages enqueued. *)
C9_OneMessagePerVerifiedSubscription ==
  lastEvent.op = "notify"
    => /\ lastEvent.count = Len(Enqueued)
       /\ \A i \in 1..Len(Enqueued) :
            /\ Enqueued[i].content = lastEvent.content
            /\ Enqueued[i].contentType = lastEvent.contentType
            /\ Enqueued[i].feedUrl = lastEvent.topic
       /\ \A id \in Ids :
            Cardinality({ i \in 1..Len(Enqueued) : Enqueued[i].subscription.id = id })
              = IF IsVerified(id) /\ subs[id].topic = lastEvent.topic THEN 1 ELSE 0

(* C10: every stored Subscription has 1 <= leaseSeconds <= maxLeaseSeconds *)
C10_LeaseInRange ==
  \A id \in Ids :
    Exists(id) => (subs[id].leaseSeconds >= 1 /\ subs[id].leaseSeconds <= maxLeaseSeconds)

(* C11: there is at most one Subscription row per (topic, callback), and
   every Subscription row is the one the index entry of its topic and
   callback points at. *)
C11_OneRowPerPair ==
  /\ \A i, j \in Ids :
       (/\ Exists(i) /\ Exists(j)
        /\ subs[i].topic = subs[j].topic
        /\ subs[i].callback = subs[j].callback) => i = j
  /\ \A i \in Ids :
       Exists(i) => idx[<<subs[i].topic, subs[i].callback>>] = i

(* C12: every entry of the (topic, callback) index points at an existing
   Subscription row with that topic and that callback. *)
C12_IndexPointsAtRow ==
  \A p \in Topics \X Callbacks :
    idx[p] # NoId
      => /\ Exists(idx[p])
         /\ subs[idx[p]].topic = p[1]
         /\ subs[idx[p]].callback = p[2]

(* C13: a scheduler tick at time now queues exactly the stored feeds with
   active=true and supportsWebSub=false that were never fetched or whose
   lastFetched plus pollingInterval minutes is at or before now. *)
C13_DueSetIsExact ==
  lastEvent.op = "pollFeeds"
    => lastEvent.queued =
         { u \in Topics :
             /\ feedRows[u] # NoFeed
             /\ feedRows[u].active
             /\ ~feedRows[u].supportsWebSub
             /\ \/ feedRows[u].lastFetched = NoDate
                \/ feedRows[u].lastFetched + feedRows[u].pollingInterval * 60
                     <= lastEvent.at }

(* a tick that queued a feed whose interval had just passed and left out
   a WebSub feed that was otherwise due *)
C13_Witness ==
  /\ lastEvent.op = "pollFeeds"
  /\ \E u \in lastEvent.queued :
       /\ feedRows[u].lastFetched # NoDate
       /\ feedRows[u].lastFetched + feedRows[u].pollingInterval * 60 = lastEvent.at
  /\ \E u \in Topics \ lastEvent.queued :
       /\ feedRows[u] # NoFeed
       /\ feedRows[u].active
       /\ feedRows[u].supportsWebSub
       /\ feedRows[u].lastFetched = NoDate

(* the last step was a poll that fetched the feed url *)
Polled ==
  lastEvent.op = "poll" /\ lastEvent.fetched

(* C14: the polling engine neither queues, fetches nor rewrites a feed
   whose stored row has supportsWebSub=true. *)
C14_WebSubFeedIsNeverPolled ==
  [][/\ lastEvent'.op = "pollFeeds"
          => \A u \in lastEvent'.queued : ~feedRows[u].supportsWebSub
     /\ (lastEvent'.op = "fetched" \/ (lastEvent'.op = "poll" /\ lastEvent'.fetched))
          => ~feedRows[lastEvent'.url].supportsWebSub]_vars

(* C15: at no time are two polls of the same feed in progress. *)
C15_OnePollPerFeed ==
  \A p, q \in polling : p.feed.url = q.feed.url => p = q

(* C16: a poll of a feed with stored validators that is answered 304 sends
   the stored validators, reports success with "not modified" and no new
   item, changes nothing of the feed but lastFetched, changes no FeedItem
   and makes no content notification. *)
C16_NotModifiedChangesOnlyLastFetched ==
  [][(lastEvent'.op = "poll" /\ lastEvent'.fetched
        /\ lastEvent'.status = 304 /\ lastEvent'.fresh)
       => /\ lastEvent'.sent # NoEtag
          /\ lastEvent'.sent = feedRows[lastEvent'.url].etag
          /\ lastEvent'.success
          /\ lastEvent'.message = "not modified"
          /\ lastEvent'.newItems = 0
          /\ ~lastEvent'.notified
          /\ feedRows'[lastEvent'.url] =
               [feedRows[lastEvent'.url] EXCEPT
                  !.lastFetched = feedRows'[lastEvent'.url].lastFetched]
          /\ items' = items
          /\ itemIdx' = itemIdx
          /\ queue' = queue]_vars

(* a second poll of a feed whose first poll stored an item and the
   validators, answered 304 *)
C16_Witness ==
  /\ Polled /\ lastEvent.status = 304 /\ lastEvent.fresh
  /\ feedRows[lastEvent.url].etag = lastEvent.sent
  /\ feedRows[lastEvent.url].lastProcessedEntryId # NoGuid
  /\ \E i \in ItemIds : items[i] # NoItem

(* C17: after a poll whose fetch was answered 2xx the feed's errorCount is
   0; after a poll whose fetch was answered with a non-2xx status it is one
   more than before, with lastError set. *)
C17_ErrorCountTracksFetch ==
  [][(lastEvent'.op = "poll" /\ lastEvent'.fetched)
       => /\ IsOk(lastEvent'.status)
               => feedRows'[lastEvent'.url].errorCount = 0
          /\ (lastEvent'.status # 0 /\ lastEvent'.status # 304
                 /\ ~IsOk(lastEvent'.status))
               => /\ feedRows'[lastEvent'.url].errorCount
                       = feedRows[lastEvent'.url].errorCount + 1
                  /\ feedRows'[lastEvent'.url].lastError]_vars

(* the stored FeedItem rows of a feed and guid *)
ItemsOf(feedId, guid) ==
  { i \in ItemIds : items[i] # NoItem /\ items[i].feedId = feedId
                      /\ items[i].guid = guid }

(* C18: there is at most one FeedItem row for each (feedId, guid), and the
   index entry of the pair points at it. *)
C18_OneItemPerGuid ==
  \A u \in FeedUrls, g \in Guids :
    /\ Cardinality(ItemsOf(u, g)) <= 1
    /\ \A i \in ItemsOf(u, g) : itemIdx[<<u, g>>] = i

(* the entries of the document a poll was served that have an id or link *)
EntriesOf(doc) ==
  { entry \in { Docs[doc].entries[i] : i \in 1..Len(Docs[doc].entries) } :
      entry.guid # NoGuid }

(* C19: a poll that is served an entry whose (feedId, guid) is already
   stored writes the entry over the stored FeedItem, keeping its id, when
   the entry's updated time is newer than the stored one, and leaves the
   stored FeedItem as it is when the entry's updated time is equal, older
   or absent. *)
C19_NewerEntryOverwrites ==
  [][(lastEvent'.op = "poll" /\ lastEvent'.fetched /\ lastEvent'.status = 200
        /\ lastEvent'.success /\ lastEvent'.fresh)
       => \A entry \in EntriesOf(lastEvent'.doc) :
            LET existingItem == getItemByFeedAndGuid(lastEvent'.url, entry.guid)
            IN  existingItem # NoItem
                  => IF entry.updated # 0 /\ existingItem.updated # 0
                          /\ entry.updated > existingItem.updated
                     THEN items'[existingItem.id]
                            = [existingItem EXCEPT !.updated = entry.updated]
                     ELSE items'[existingItem.id] = existingItem]_vars

(* C20: a 2xx poll that is served a document with entries already stored
   next to entries not yet stored creates a FeedItem for every entry that
   was not stored before, and reports their number as newItems. *)
C20_EveryNewEntryIsCreated ==
  [][(lastEvent'.op = "poll" /\ lastEvent'.fetched /\ lastEvent'.status = 200
        /\ lastEvent'.success /\ lastEvent'.fresh
        /\ \E entry \in EntriesOf(lastEvent'.doc) :
              getItemByFeedAndGuid(lastEvent'.url, entry.guid) # NoItem)
       => /\ \A entry \in EntriesOf(lastEvent'.doc) :
               getItemByFeedAndGuid(lastEvent'.url, entry.guid) = NoItem
                 => /\ itemIdx'[<<lastEvent'.url, entry.guid>>] # NoItemId
                    /\ items'[itemIdx'[<<lastEvent'.url, entry.guid>>]].guid = entry.guid
          /\ lastEvent'.newItems =
               Cardinality({ entry \in EntriesOf(lastEvent'.doc) :
                               getItemByFeedAndGuid(lastEvent'.url, entry.guid) = NoItem })]_vars

(* C21: a poll queues content for the subscribers of the feed's url if and
   only if it created a FeedItem; the queued messages carry the url as
   topic, the fetched body and the Content-Type of the answer.  No other
   step of the polling engine queues anything. *)
C21_NotifiesIffNewItem ==
  [][/\ lastEvent'.op = "poll"
          => /\ SubSeq(queue', 1, Len(queue)) = queue
             /\ Len(queue') > Len(queue)
                  <=> \E i \in ItemIds : items[i] = NoItem /\ items'[i] # NoItem
             /\ \A k \in (Len(queue) + 1)..Len(queue') :
                  /\ queue'[k].feedUrl = lastEvent'.url
                  /\ queue'[k].subscription.topic = lastEvent'.url
                  /\ queue'[k].subscription.verified
                  /\ queue'[k].content = lastEvent'.doc
                  /\ lastEvent'.contentType # NoContentType
                       => queue'[k].contentType = lastEvent'.contentType
     /\ lastEvent'.op \in {"fetched", "pollFeeds", "publish", "addFeed"}
          => queue' = queue]_vars

(* a poll that created an item and queued the body it fetched, with the
   Content-Type it was served, for the verified subscriber *)
C21_Witness ==
  /\ lastEvent.op = "poll" /\ lastEvent.fetched /\ lastEvent.status = 200
  /\ lastEvent.success /\ lastEvent.newItems > 0
  /\ lastEvent.contentType = "application/atom+xml"
  /\ queue # <<>>
  /\ queue[Len(queue)].contentType = "application/atom+xml"
  /\ queue[Len(queue)].content = lastEvent.doc
  /\ queue[Len(queue)].subscription.callback = "c1"

(* C28: a delivery whose POST fails (a non-2xx answer or no answer) is    *)
(* retried: the message stays in, or returns to, the queue, or the        *)
(* Subscription is marked with the error.                                 *)
C28_FailedDeliveryIsRetried ==
  [][(lastEvent'.op = "deliver" /\ ~lastEvent'.ok)
       => (Len(queue') >= Len(queue) \/ subs' # subs)]_vars

(* C29: when notification A was accepted before notification B, no        *)
(* subscriber is POSTed B's content before A's.                           *)
AcceptedBefore(a, b) ==
  \E k, l \in 1..Len(order.accepted) :
     k < l /\ order.accepted[k] = a /\ order.accepted[l] = b

C29_DeliveredInAcceptanceOrder ==
  \A i, j \in 1..Len(order.posted) :
     (i < j /\ order.posted[i].callback = order.posted[j].callback)
       => ~AcceptedBefore(order.posted[j].content, order.posted[i].content)
(* C22: a verification of intent changes an ExternalSubscription only     *)
(* when a subscription is stored for the callback path, its topic is the  *)
(* given one and a challenge is present.  Then subscribe leaves the row   *)
(* verified, with expires = now + the lease when a lease was given;       *)
(* unsubscribe leaves no row and neither of its index entries; the        *)
(* challenge comes back unchanged.  A refused request changes no row.     *)
C22_VerificationOfIntent ==
  [][/\ lastEvent'.op = "callbackRead"
          => /\ getByCallbackPath(lastEvent'.path) # NoExt
             /\ getByCallbackPath(lastEvent'.path).topic = lastEvent'.topic
             /\ lastEvent'.received # NoChallenge
             /\ UNCHANGED extVars
     /\ (lastEvent'.op = "callback" /\ ~lastEvent'.success)
          => /\ \/ getByCallbackPath(lastEvent'.path) = NoExt
                \/ getByCallbackPath(lastEvent'.path).topic # lastEvent'.topic
                \/ lastEvent'.received = NoChallenge
             /\ UNCHANGED extVars
     /\ (lastEvent'.op = "callback" /\ lastEvent'.success)
          => /\ lastEvent'.returned = lastEvent'.received
             /\ lastEvent'.received # NoChallenge
             /\ \A j \in ExtIds : j # lastEvent'.id => extSubs'[j] = extSubs[j]
             /\ UNCHANGED <<userCallbacks, ucbIdx>>
             /\ lastEvent'.mode = "subscribe"
                  => /\ extSubs'[lastEvent'.id].verified
                     /\ extSubs'[lastEvent'.id].topic = lastEvent'.topic
                     /\ (lastEvent'.lease.kind = "int" /\ lastEvent'.lease.v > 0)
                          => /\ extSubs'[lastEvent'.id].expires
                                  = now + lastEvent'.lease.v
                             /\ extSubs'[lastEvent'.id].leaseSeconds
                                  = lastEvent'.lease.v
                     /\ UNCHANGED <<extByTopic, extByCallback>>
             /\ lastEvent'.mode = "unsubscribe"
                  => /\ extSubs'[lastEvent'.id] = NoExt
                     /\ extByCallback'[lastEvent'.path] = NoId
                     /\ extByTopic'[lastEvent'.topic] = NoId
    ]_vars

C22_Witness ==
  /\ lastEvent.op = "callback"
  /\ lastEvent.success
  /\ lastEvent.mode = "subscribe"
  /\ lastEvent.lease.kind = "int"
  /\ lastEvent.lease.v > 0
  /\ now > 0
  /\ extSubs[lastEvent.id].verified
  /\ extSubs[lastEvent.id].expires = now + lastEvent.lease.v
  /\ \E j \in ExtIds : extSubs[j] = NoExt /\ extByCallback[j] = NoId
(* C23: content is POSTed only to a stored UserCallback that is verified  *)
(* and of the topic of the content, and only for a verified               *)
(* ExternalSubscription of the callback path; content that is refused     *)
(* starts no forwarding.                                                  *)
C23_ForwardsOnlyToVerified ==
  [][/\ lastEvent'.op = "forward"
          => /\ userCallbacks[lastEvent'.id] # NoCallback
             /\ userCallbacks[lastEvent'.id].verified
             /\ userCallbacks[lastEvent'.id].topic = lastEvent'.topic
             /\ userCallbacks[lastEvent'.id].callbackUrl = lastEvent'.url
             /\ getByCallbackPath(lastEvent'.path) # NoExt
             /\ getByCallbackPath(lastEvent'.path).verified
             /\ getByCallbackPath(lastEvent'.path).topic = lastEvent'.topic
     /\ lastEvent'.op = "content"
          => /\ (getByCallbackPath(lastEvent'.path) = NoExt
                   \/ ~getByCallbackPath(lastEvent'.path).verified)
                  => (~lastEvent'.success /\ calls' = calls)
             /\ \A c \in calls' \ calls :
                   \A k \in 1..Len(c.todo) :
                      c.todo[k].verified /\ c.todo[k].topic = lastEvent'.topic
    ]_vars

C23_Witness ==
  /\ lastEvent.op = "forward"
  /\ lastEvent.ok
  /\ userCallbacks[lastEvent.id].verified
  /\ \E j \in UcbIds :
        /\ userCallbacks[j] # NoCallback
        /\ userCallbacks[j].topic = lastEvent.topic
        /\ ~userCallbacks[j].verified
(* C25: verifyCallback(token) succeeds exactly when a stored UserCallback *)
(* holds the token and the token has not expired; it then leaves that     *)
(* row verified with token and expiry cleared, so that the token verifies *)
(* nothing again; otherwise it fails and changes no row.                  *)
C25_VerifyCallback ==
  [][lastEvent'.op = "verifyCallback"
       => /\ lastEvent'.success
               <=> \E i \in UcbIds :
                      /\ userCallbacks[i] # NoCallback
                      /\ userCallbacks[i].verificationToken = lastEvent'.token
                      /\ userCallbacks[i].verificationExpires >= now
          /\ lastEvent'.success
               => /\ userCallbacks[lastEvent'.id].verificationToken = lastEvent'.token
                  /\ userCallbacks'[lastEvent'.id].verified
                  /\ userCallbacks'[lastEvent'.id].verificationToken = NoId
                  /\ userCallbacks'[lastEvent'.id].verificationExpires = NoDate
                  /\ \A j \in UcbIds :
                        /\ j # lastEvent'.id => userCallbacks'[j] = userCallbacks[j]
                        /\ userCallbacks'[j] # NoCallback
                             => userCallbacks'[j].verificationToken # lastEvent'.token
          /\ ~lastEvent'.success => userCallbacks' = userCallbacks
    ]_vars

C25_Witness ==
  /\ lastEvent.op = "verifyCallback"
  /\ ~lastEvent.success
  /\ lastEvent.token \in UcbIds
  /\ now = UserTokenHours * 3600
  /\ userCallbacks[lastEvent.token] # NoCallback
  /\ userCallbacks[lastEvent.token].verified
  /\ \E j \in UcbIds :
        /\ userCallbacks[j] # NoCallback
        /\ ~userCallbacks[j].verified
(* C26: a renewal acts only on a verified ExternalSubscription whose      *)
(* expires is at or before now + the renewal window.  A fallback one gets *)
(* expires = now + leaseSeconds and no request is made; another gets the  *)
(* subscribe POST at its hub with its secret and callbackPath, which stay *)
(* as they are; a 2xx answer sets lastRenewed, any other outcome adds one *)
(* to errorCount.                                                         *)
C26_RenewsOnlyVerifiedInWindow ==
  [][lastEvent'.op = "renewed"
       => /\ extSubs[lastEvent'.id] # NoExt
          /\ extSubs[lastEvent'.id].verified
          /\ extSubs[lastEvent'.id].expires <= now + renewalWindowMinutes * 60
          /\ \A j \in ExtIds : j # lastEvent'.id => extSubs'[j] = extSubs[j]
          /\ UNCHANGED <<extByTopic, extByCallback>>
          /\ extSubs'[lastEvent'.id].secret = extSubs[lastEvent'.id].secret
          /\ extSubs'[lastEvent'.id].callbackPath = extSubs[lastEvent'.id].callbackPath
          /\ extSubs'[lastEvent'.id].verified
          /\ IF extSubs[lastEvent'.id].usingFallback
             THEN /\ ~lastEvent'.posted
                  /\ extSubs'[lastEvent'.id].expires
                       = now + extSubs[lastEvent'.id].leaseSeconds
             ELSE /\ lastEvent'.posted
                  /\ lastEvent'.hub = extSubs[lastEvent'.id].hub
                  /\ lastEvent'.secret = extSubs[lastEvent'.id].secret
                  /\ lastEvent'.callbackPath = extSubs[lastEvent'.id].callbackPath
                  /\ IsOk(lastEvent'.status)
                       => /\ extSubs'[lastEvent'.id].lastRenewed = now
                          /\ extSubs'[lastEvent'.id].errorCount
                               = extSubs[lastEvent'.id].errorCount
                  /\ ~IsOk(lastEvent'.status)
                       => extSubs'[lastEvent'.id].errorCount
                            = extSubs[lastEvent'.id].errorCount + 1
    ]_vars

C26_Witness ==
  /\ lastEvent.op = "renewed"
  /\ lastEvent.posted
  /\ lastEvent.status = 500
  /\ extSubs[lastEvent.id].errorCount = 1
  /\ \E j \in ExtIds :
        /\ extSubs[j] # NoExt
        /\ ~extSubs[j].verified
        /\ extSubs[j].expires <= now + renewalWindowMinutes * 60
        /\ extSubs[j].errorCount = 0
        /\ extSubs[j].lastRenewed = NoDate
(* C27: when an expiration sweep has finished, no inbound Subscription is *)
(* left whose expires lay more than a whole lease before the start of the *)
(* sweep.                                                                 *)
C27_SweepDeletesExpiredInbound ==
  lastEvent.op = "cleared"
    => \A i \in Ids :
          Exists(i) => subs[i].expires + subs[i].leaseSeconds >= lastEvent.at
(* C24: when the user callback answered the verification GET of a         *)
(* subscribeToFeed call with 2xx and the token, the UserCallback row is   *)
(* verified once the call has returned success.                           *)
C24_EchoedTokenVerifies ==
  (lastEvent.op = "subscribed" /\ lastEvent.success /\ lastEvent.echoed)
    => userCallbacks[lastEvent.cb].verified

(* C30: when subscribeToOwnHub returns success, and no other handler      *)
(* wrote the external subscriptions during the call, the topic index      *)
(* resolves to a verified fallback row and a Feed row exists for the      *)
(* topic or for the feed its HTML page names; when it returns failure,    *)
(* the row the call created is not verified.                              *)
C30_OwnHubResult ==
  [][(lastEvent'.op = "subscribed" /\ lastEvent'.ownHub)
       => /\ (lastEvent'.success /\ lastEvent'.alone)
               => /\ extByTopic'[lastEvent'.topic] # NoId
                  /\ extSubs'[extByTopic'[lastEvent'.topic]] # NoExt
                  /\ extSubs'[extByTopic'[lastEvent'.topic]].usingFallback
                  /\ extSubs'[extByTopic'[lastEvent'.topic]].verified
                  /\ extSubs'[extByTopic'[lastEvent'.topic]].topic = lastEvent'.topic
                  /\ \/ feedRows'[lastEvent'.topic] # NoFeed
                     \/ /\ Web[lastEvent'.topic].kind = "html"
                        /\ feedRows'[Web[lastEvent'.topic].link] # NoFeed
          /\ ~lastEvent'.success
               => /\ ~extSubs'[lastEvent'.id].verified
                  /\ \A j \in ExtIds :
                        (extSubs'[j] # NoExt /\ extSubs'[j].verified)
                          => (extSubs[j] # NoExt /\ extSubs[j].verified)
    ]_vars

C30_Witness ==
  /\ lastEvent.op = "subscribed"
  /\ lastEvent.ownHub
  /\ lastEvent.success
  /\ lastEvent.alone
  /\ lastEvent.topic = "t2"
  /\ feedRows["t2"] = NoFeed
  /\ feedRows["t1"] # NoFeed
  /\ extSubs[extByTopic["t2"]].verified
  /\ \E j \in ExtIds :
        extSubs[j] # NoExt /\ ~extSubs[j].verified /\ extSubs[j].errorCount = 1
(* C38: when a subscribe verification is answered 2xx with the challenge, *)
(* the row it leaves has expires = the time of the answer + leaseSeconds. *)
C38_ExpiresFromVerification ==
  [][(/\ lastEvent'.op = "answer"
      /\ lastEvent'.mode = "subscribe"
      /\ IsOk(lastEvent'.status)
      /\ lastEvent'.matched
      /\ subs'[lastEvent'.id] # NoRow
      /\ subs'[lastEvent'.id].verified)
       => subs'[lastEvent'.id].expires = now + subs'[lastEvent'.id].leaseSeconds
    ]_vars

(* ---------------- the marker of the last processed entry ---------------- *)
(* the polling engine on a feed that is already stored, with the marker   *)
(* an earlier document left in it, while the feed url keeps serving one   *)
(* document, whichever that is                                            *)
InitMarker ==
  /\ subs = [i \in Ids |-> NoRow]
  /\ idx = [p \in Topics \X Callbacks |-> NoId]
  /\ feeds = {"t1"}
  /\ reqs = {}
  /\ timers = {}
  /\ inflight = {}
  /\ deleting = {}
  /\ queue = <<>>
  /\ now = 0
  /\ nreq = 0
  /\ items = [i \in ItemIds |-> NoItem]
  /\ itemIdx = [k \in FeedUrls \X Guids |-> NoItemId]
  /\ pollQueue = <<>>
  /\ polling = {}
  /\ upstream \in { [doc |-> d, n |-> 0] : d \in 1..Len(Docs) }
  /\ npoll = 0
  /\ feedRows \in { [u \in Topics |->
                      IF u = "t1"
                      THEN [NewFeed("t1") EXCEPT !.lastProcessedEntryId = g]
                      ELSE NoFeed] : g \in Guids \cup {NoGuid} }
  /\ extSubs = [i \in ExtIds |-> NoExt]
  /\ extByTopic = [t \in Pages |-> NoId]
  /\ extByCallback = [i \in ExtIds |-> NoId]
  /\ userCallbacks = [i \in UcbIds |-> NoCallback]
  /\ ucbIdx = [k \in Pages \X UserUrls |-> NoId]
  /\ calls = {}
  /\ order = NoOrder
  /\ feedStore = NoFeedStore
  /\ lastEvent = [op |-> "init"]

NextMarker ==
  \/ pollFeeds
  \/ Polls
  \/ Commits
  \/ Wait

SpecMarker ==
  InitMarker /\ [][NextMarker]_vars

(* the guids of the entries a set of positions of the document holds, at  *)
(* the greatest a.updated || a.published among them                       *)
NewestAmong(entries, S) ==
  { entries[i].guid : i \in { k \in S : \A j \in S :
                                 SortKey(entries[j]) <= SortKey(entries[k]) } }

WithId(entries) ==
  { i \in 1..Len(entries) : entries[i].guid # NoGuid }

(* the last step was a complete poll, not overlapped, of the stored feed *)
FreshPoll ==
  lastEvent.op = "poll" /\ lastEvent.fetched /\ lastEvent.fresh

C36_WebSubIsNotSetBack ==
  [][\A u \in Topics :
       (feedRows[u] # NoFeed /\ feedRows[u].supportsWebSub)
         => /\ feedRows'[u] # NoFeed
            /\ feedRows'[u].supportsWebSub
            /\ ~IsDue(feedRows'[u], now')]_vars

(* ------------------- fan-out while subscribers leave -------------------- *)
(* two verified subscribers of t1; unsubscribe requests whose             *)
(* verification the subscriber confirms, notifications and deliveries     *)
ConfirmedAnswers ==
  \E f \in inflight, up \in SUBSET Topics :
     \E body \in Bodies(f.ver.challenge) :
        /\ ~ChallengeMismatch(body, f.ver)
        /\ VerifyRespond(f, 200, body, up)
        /\ UNCHANGED <<pollVars, webVars>>

InitLeave ==
  /\ now = 0
  /\ subs = [i \in Ids |->
              IF i = 1 THEN VerifiedRow(NewRow(1, "t1", "c1", defaultLeaseSeconds, 1))
              ELSE IF i = 2
                   THEN VerifiedRow(NewRow(2, "t1", "c2", defaultLeaseSeconds, 2))
              ELSE NoRow]
  /\ idx = [p \in Topics \X Callbacks |->
              IF p = <<"t1", "c1">> THEN 1
              ELSE IF p = <<"t1", "c2">> THEN 2 ELSE NoId]
  /\ feeds = {}
  /\ reqs = {}
  /\ timers = {}
  /\ inflight = {}
  /\ deleting = {}
  /\ queue = <<>>
  /\ nreq = 0
  /\ feedRows = [u \in Topics |-> NoFeed]
  /\ items = [i \in ItemIds |-> NoItem]
  /\ itemIdx = [k \in FeedUrls \X Guids |-> NoItemId]
  /\ pollQueue = <<>>
  /\ polling = {}
  /\ upstream = [doc |-> 1, n |-> 0]
  /\ npoll = 0
  /\ extSubs = [i \in ExtIds |-> NoExt]
  /\ extByTopic = [t \in Pages |-> NoId]
  /\ extByCallback = [i \in ExtIds |-> NoId]
  /\ userCallbacks = [i \in UcbIds |-> NoCallback]
  /\ ucbIdx = [k \in Pages \X UserUrls |-> NoId]
  /\ calls = {}
  /\ order = NoOrder
  /\ feedStore = NoFeedStore
  /\ lastEvent = [op |-> "init"]

NextLeave ==
  \/ \E callback \in Callbacks :
        ReqStart("unsubscribe", "t1", callback, NoLease)
          /\ UNCHANGED <<feedRows, pollVars, webVars>>
  \/ Writes
  \/ Verifies
  \/ ConfirmedAnswers
  \/ Deletes
  \/ Notifications
  \/ Deliveries

SpecLeave ==
  InitLeave /\ [][NextLeave]_vars

(* a Subscription row is stored for the topic and callback *)
Stored(topic, callback) ==
  \/ idx[<<topic, callback>>] # NoId
  \/ \E i \in Ids : /\ subs[i] # NoRow
                    /\ subs[i].topic = topic
                    /\ subs[i].callback = callback

(* C34: a Distribute message is POSTed to its callback only while a       *)
(* Subscription row for its topic and callback is stored: after an        *)
(* unsubscribe has deleted the row and its index entry, a message queued  *)
(* before the deletion is not delivered.                                  *)
C34_NoPostAfterUnsubscribe ==
  [][lastEvent'.op = "deliver"
       => Stored(Head(queue).subscription.topic,
                 Head(queue).subscription.callback)]_vars

(* C33: there is at most one ExternalSubscription row per topic, and      *)
(* every row is the one the by-topic index of its topic leads to.         *)
C33_OneRowPerTopic ==
  /\ \A i, j \in ExtIds :
       (extSubs[i] # NoExt /\ extSubs[j] # NoExt
          /\ extSubs[i].topic = extSubs[j].topic) => i = j
  /\ \A i \in ExtIds :
       extSubs[i] # NoExt => extByTopic[extSubs[i].topic] = i

(* --------------- POST /api/admin/feeds/:id/toggle ---------------------- *)
(* the route between its awaits: db.feeds.getById, then db.feeds.update   *)
(* of the feed it read with active negated                                *)
ToggleRead(url) ==
  /\ feedRows[url] # NoFeed
  /\ Cardinality(calls) < MaxCalls
  /\ calls' = calls \cup {[op |-> "toggle", feed |-> feedRows[url]]}
  /\ lastEvent' = [op |-> "toggleRead", url |-> url]
  /\ UNCHANGED <<hubVars, queue, now, feedRows, pollVars, extVars, order, feedStore>>

ToggleWrite(c) ==
  /\ c \in calls
  /\ c.op = "toggle"
  /\ calls' = calls \ {c}
  /\ feedRows' = FeedUpdate([c.feed EXCEPT !.active = ~c.feed.active])
  /\ lastEvent' = [op |-> "toggled", url |-> c.feed.url, active |-> ~c.feed.active]
  /\ UNCHANGED <<hubVars, queue, now, pollVars, extVars, order, feedStore>>

(* the polling engine on a stored feed while the administrator toggles it *)
NextToggle ==
  \/ pollFeeds
  \/ Polls
  \/ Commits
  \/ \E url \in Topics : ToggleRead(url)
  \/ \E c \in calls : ToggleWrite(c)

SpecToggle ==
  InitMarker /\ [][NextToggle]_vars

(* C35: no step of a poll changes the stored active flag of its feed: a   *)
(* feed the administrator deactivated after its PollFeed message was      *)
(* queued, or while its poll was in flight, is still inactive after the   *)
(* poll's update.                                                         *)
C35_PollKeepsActive ==
  [][lastEvent'.op = "poll"
       => feedRows'[lastEvent'.url].active = feedRows[lastEvent'.url].active]_vars

(* ------------------ discovery from pages that name pages ---------------- *)
(* subscribeToFeed called with the url of an HTML page whose feed link    *)
(* leads to another HTML page                                             *)
NextDiscover ==
  \/ \E topic \in Pages \ Topics, url \in SubscribeUrls : SubscribeStart(topic, url)
  \/ \E c \in calls, st \in SubscribeStatuses :
        \E body \in EchoBodies(IF c.cb = NoCallback THEN NoId
                               ELSE c.cb.verificationToken) :
           SubscribeVerified(c, st, body)
  \/ \E c \in calls : SubscribeLookup(c)
  \/ \E c \in calls, ok \in BOOLEAN, hub \in Hubs \cup {NoHub} :
        SubscribeDiscover(c, ok, hub)
  \/ \E c \in calls, st \in SubscribeStatuses : ExternalAnswer(c, st)
  \/ \E c \in calls, up \in SUBSET Topics : OwnFinish(c, up)

SpecDiscover ==
  InitSubscribe /\ [][NextDiscover]_vars

(* C39: discovery follows a feed link found in an HTML page at most once: *)
(* no subscribeToFeed call runs more than one recursive call deep.        *)
C39_DepthAtMostOne ==
  \A c \in calls : c.op = "subscribe" => c.depth <= 1

(* ---------- the hourly jobs of WebhookService.startRenewalService ------- *)
(* Deno.cron("0 * * * *") fires the renewal job and the expiry-clear job  *)
(* at every full hour; each job starts some time into the hour, and the   *)
(* two start in either order.  A "cron" call is a job that was fired and  *)
(* has not done its first read yet.                                       *)
ScheduleHours ==
  25
MaxSkewSeconds ==
  1
HourSeconds ==
  3600

CronJobs ==
  {[op |-> "cron", job |-> "renew"], [op |-> "cron", job |-> "clear"]}

(* the next full hour: both jobs are fired; the jobs of the hour before   *)
(* have run to their end                                                  *)
Hour ==
  /\ calls = {}
  /\ now < ScheduleHours * HourSeconds
  /\ now' = now - (now % HourSeconds) + HourSeconds
  /\ calls' = CronJobs
  /\ lastEvent' = [op |-> "hour", at |-> now']
  /\ UNCHANGED <<extVars, order, feedStore>>
  /\ UNCHANGED <<hubVars, queue, feedRows, pollVars>>

(* a job is slow to start or to go on *)
Delay ==
  /\ calls # {}
  /\ now % HourSeconds < MaxSkewSeconds
  /\ now' = now + 1
  /\ lastEvent' = [op |-> "delay"]
  /\ UNCHANGED <<webVars, hubVars, queue, feedRows, pollVars>>

(* the renewal job starts: renewSubscriptions reads the subscriptions     *)
(* needing renewal                                                        *)
CronRenew(c) ==
  /\ c \in calls
  /\ c.op = "cron"
  /\ c.job = "renew"
  /\ calls' = IF getNeedingRenewal = <<>> THEN calls \ {c}
              ELSE (calls \ {c}) \cup {[op |-> "renew", at |-> now,
                                        todo |-> getNeedingRenewal]}
  /\ lastEvent' = [op |-> "renewSubscriptions", at |-> now,
                   count |-> Len(getNeedingRenewal)]
  /\ UNCHANGED <<extVars, order, feedStore>>
  /\ UNCHANGED <<hubVars, queue, now, feedRows, pollVars>>

(* the expiry-clear job starts: clearExpiredSubscriptions reads the       *)
(* expired subscriptions                                                  *)
CronClear(c) ==
  /\ c \in calls
  /\ c.op = "cron"
  /\ c.job = "clear"
  /\ calls' = IF getExpired = <<>> THEN calls \ {c}
              ELSE (calls \ {c}) \cup {[op |-> "clear", at |-> now,
                                        todo |-> getExpired]}
  /\ lastEvent' = IF getExpired = <<>>
                  THEN [op |-> "cleared", at |-> now, cleared |-> 0]
                  ELSE [op |-> "clearing", at |-> now]
  /\ UNCHANGED <<extVars, order, feedStore>>
  /\ UNCHANGED <<hubVars, queue, now, feedRows, pollVars>>

(* a verified fallback subscription of t1, created at a full hour *)
InitSchedule ==
  InitStored(FALSE,
             {e \in ExtChoices : /\ e[1] = [kind |-> "fallback", topic |-> "t1"]
                                 /\ \A i \in ExtIds : i # 1 => e[i] = NoChoice},
             {NoUcbChoice})

NextSchedule ==
  \/ Hour
  \/ Delay
  \/ \E c \in calls : CronRenew(c)
  \/ \E c \in calls : CronClear(c)
  \/ \E c \in calls : RenewStep(c, 200)
  \/ \E c \in calls : ClearStep(c)

SpecSchedule ==
  InitSchedule /\ [][NextSchedule]_vars

(* C40: while both hourly jobs keep firing, no step deletes a verified    *)
(* fallback ExternalSubscription: the renewal has moved its expires       *)
(* before the sweep can read it as expired.                               *)
C40_FallbackIsNeverCleared ==
  [][\A i \in ExtIds :
       (extSubs[i] # NoExt /\ extSubs[i].verified /\ extSubs[i].usingFallback)
         => extSubs'[i] # NoExt]_vars

(* ------------- a user's subscription served by polling ------------------ *)
(* the hub has a verified subscriber (t1, c1) of its own;                 *)
(* subscribeToFeed(t1, u1) finds no hub and falls back on the own hub,    *)
(* the user confirms the callback by its token, the feed publishes and    *)
(* the polling engine runs                                                *)
InitRelay ==
  InitStored(TRUE, {NoExtChoice}, {NoUcbChoice})

NextRelay ==
  \/ SubscribeStart("t1", "u1")
  \/ \E c \in calls, st \in SubscribeStatuses :
        \E body \in EchoBodies(IF c.cb = NoCallback THEN NoId
                               ELSE c.cb.verificationToken) :
           SubscribeVerified(c, st, body)
  \/ \E c \in calls : SubscribeLookup(c)
  \/ \E c \in calls, ok \in BOOLEAN : SubscribeDiscover(c, ok, NoHub)
  \/ \E c \in calls, up \in SUBSET Topics : OwnFinish(c, up)
  \/ \E token \in UcbIds : verifyCallback(token)
  \/ \E doc \in NotifyDocs \cup {3} : Publish(doc)
  \/ pollFeeds
  \/ \E st \in PollStatuses, parses \in BOOLEAN,
        contentType \in ResponseContentTypes :
        PollFetch(st, parses, 0, contentType)
  \/ Commits
  \/ Deliveries

SpecRelay ==
  InitRelay /\ [][NextRelay]_vars

(* the topic has a verified fallback subscription and a verified user     *)
(* callback                                                               *)
ServedByPolling(topic) ==
  /\ \E i \in ExtIds : /\ extSubs[i] # NoExt
                       /\ extSubs[i].topic = topic
                       /\ extSubs[i].usingFallback
                       /\ extSubs[i].verified
  /\ \E j \in UcbIds : /\ userCallbacks[j] # NoCallback
                       /\ userCallbacks[j].topic = topic
                       /\ userCallbacks[j].verified

(* C31: when a poll of a topic that is served in fallback mode to a       *)
(* verified user callback detects new entries, the poll leaves a delivery *)
(* to the user under way, from which the POST to the user callback url    *)
(* follows: a forward to the user callbacks, or a Distribute message      *)
(* addressed to the hub's own callback path and not to a subscriber.      *)
C31_PolledEntriesAreRelayed ==
  [][(/\ lastEvent'.op = "poll"
      /\ lastEvent'.fetched
      /\ lastEvent'.newItems > 0
      /\ ServedByPolling(lastEvent'.url))
       => \/ \E c \in calls' : c.op = "forward"
          \/ \E k \in 1..Len(queue') :
                /\ queue'[k].feedUrl = lastEvent'.url
                /\ queue'[k].subscription.callback \notin Callbacks]_vars

(* --------------------------- the FeedStore ------------------------------ *)
(* the data create is given, and the calls of the store one after another *)
FeedData ==
  [url : Topics, title : {"a", "b"}, active : BOOLEAN]

FsCreate(data) ==
  /\ \E i \in FeedIds : feedStore.rows[i] = NoFeed
  /\ feedStore' = FeedCreate(feedStore, data)
  /\ lastEvent' = [op |-> "feedCreate", data |-> data,
                   feed |-> CreatedFeed(feedStore, data)]
  /\ UNCHANGED <<extVars, calls, order, hubVars, queue, now, feedRows, pollVars>>

(* update is given a feed that was read from the store, with fields set *)
FsUpdate(feed) ==
  /\ feedStore' = FeedStoreUpdate(feedStore, feed)
  /\ lastEvent' = [op |-> "feedUpdate", feed |-> feed]
  /\ UNCHANGED <<extVars, calls, order, hubVars, queue, now, feedRows, pollVars>>

FsDelete(id) ==
  /\ feedStore' = FeedDelete(feedStore, id)
  /\ lastEvent' = [op |-> "feedDelete", id |-> id,
                   url |-> FeedGetById(feedStore, id).url]
  /\ UNCHANGED <<extVars, calls, order, hubVars, queue, now, feedRows, pollVars>>

NextFeedStore ==
  \/ \E data \in FeedData : FsCreate(data)
  \/ \E i \in FeedIds, data \in FeedData :
        /\ FeedGetById(feedStore, i) # NoFeed
        /\ FsUpdate([FeedGetById(feedStore, i) EXCEPT !.url = data.url,
                                                       !.title = data.title,
                                                       !.active = data.active])
  \/ \E id \in FeedIds : FsDelete(id)

SpecFeedStore ==
  Init /\ [][NextFeedStore]_vars

(* C32: after create(data), getById(id) and getByUrl(data.url) return the *)
(* created row, which is the data with a fresh id and errorCount 0; after *)
(* update(feed), getById returns the feed as updated; after delete(id),   *)
(* getById(id) and getByUrl of the deleted feed's url return null.        *)
C32_FeedStoreRoundTrips ==
  [][/\ lastEvent'.op = "feedCreate"
          => LET feed == lastEvent'.feed
                 data == lastEvent'.data
             IN  /\ FeedGetById(feedStore, feed.id) = NoFeed
                 /\ FeedGetById(feedStore', feed.id) = feed
                 /\ FeedGetByUrl(feedStore', data.url) = feed
                 /\ feed.errorCount = 0
                 /\ \A f \in DOMAIN data : feed[f] = data[f]
     /\ lastEvent'.op = "feedUpdate"
          => FeedGetById(feedStore', lastEvent'.feed.id) = lastEvent'.feed
     /\ lastEvent'.op = "feedDelete"
          => /\ FeedGetById(feedStore', lastEvent'.id) = NoFeed
             /\ lastEvent'.url # NoUrl
                  => FeedGetByUrl(feedStore', lastEvent'.url) = NoFeed]_vars

(* a stored feed was deleted while another feed stays stored, and is      *)
(* found neither by its id nor by its url                                 *)
C32_Witness ==
  /\ lastEvent.op = "feedDelete"
  /\ lastEvent.url # NoUrl
  /\ FeedGetById(feedStore, lastEvent.id) = NoFeed
  /\ FeedGetByUrl(feedStore, lastEvent.url) = NoFeed
  /\ \E i \in FeedIds : FeedGetById(feedStore, i) # NoFeed
====
